---- MODULE Spec2Model ----
(***************************************************************************)
(* The arbitrage cycle engine of degenbot (UniswapLpCycle): construction,  *)
(* the per-pool viability cache, the pre-calculation check, the reactive   *)
(* notification handler and the payload builder.                           *)
(*                                                                         *)
(* Python integers are unbounded; TLC's are 32 bit.  The fixed-point base  *)
(* 2^192 and the concentrated-liquidity fee denominator 1000000 of the     *)
(* source are therefore kept as named constants with small values (Q192,   *)
(* V3_FEE_DENOMINATOR); every formula of the source is kept in terms of    *)
(* these names.                                                            *)
(***************************************************************************)
EXTENDS Integers, Sequences, FiniteSets, TLC

(***************************************************************************)
(* Bounds of the model.                                                    *)
(***************************************************************************)
MaxReserve == 2          \* reserves of a constant-product pool: 0..MaxReserve
MaxSqrtPrice == 2        \* sqrt_price_x96 of a V3 pool: 0..MaxSqrtPrice
MaxAmount == 2           \* swap amounts handed to generate_payloads: 1..MaxAmount

(***************************************************************************)
(* Program constants (scaled, see the header).                             *)
(***************************************************************************)
Q96 == 2                 \* 2^96, the value of sqrt_price_x96 at price 1
Q192 == Q96 * Q96        \* the literal 2^192 of uniswap_lp_cycle.py:362
V3_FEE_DENOMINATOR == 100    \* the literal 1000000 of uniswap_lp_cycle.py:359
MIN_SQRT_RATIO == 1      \* tick_math.MIN_SQRT_RATIO
MAX_SQRT_RATIO == 9      \* tick_math.MAX_SQRT_RATIO

Tokens == {"A", "B", "C"}
Ticks == {-1, 1}

(***************************************************************************)
(* The pool objects the cycles are built from.  Static attributes only;    *)
(* the state of a pool lives in the variable pool_state.                   *)
(***************************************************************************)
PoolIds == 1..6

Pool(id) ==
    CASE id = 1 -> [id |-> 1, family |-> "UniswapV2", address |-> "0xPool1",
                    token0 |-> "A", token1 |-> "B",
                    fee_token0 |-> <<3, 1000>>, fee_token1 |-> <<3, 1000>>,
                    fee |-> 0, sparse_liquidity_map |-> FALSE]
      [] id = 2 -> [id |-> 2, family |-> "AerodromeV2", address |-> "0xPool2",
                    token0 |-> "A", token1 |-> "B",
                    fee_token0 |-> <<0, 1>>, fee_token1 |-> <<0, 1>>,
                    fee |-> 0, sparse_liquidity_map |-> FALSE]
      [] id = 3 -> [id |-> 3, family |-> "UniswapV3", address |-> "0xPool3",
                    token0 |-> "A", token1 |-> "B",
                    fee_token0 |-> <<0, 1>>, fee_token1 |-> <<0, 1>>,
                    fee |-> 0, sparse_liquidity_map |-> FALSE]
      [] id = 4 -> [id |-> 4, family |-> "UniswapV3", address |-> "0xPool4",
                    token0 |-> "A", token1 |-> "B",
                    fee_token0 |-> <<0, 1>>, fee_token1 |-> <<0, 1>>,
                    fee |-> 1, sparse_liquidity_map |-> TRUE]
      [] id = 5 -> [id |-> 5, family |-> "UniswapV2", address |-> "0xPool5",
                    token0 |-> "B", token1 |-> "C",
                    fee_token0 |-> <<3, 1000>>, fee_token1 |-> <<3, 1000>>,
                    fee |-> 0, sparse_liquidity_map |-> FALSE]
      [] id = 6 -> [id |-> 6, family |-> "UniswapV3", address |-> "0xPool6",
                    token0 |-> "A", token1 |-> "C",
                    fee_token0 |-> <<0, 1>>, fee_token1 |-> <<0, 1>>,
                    fee |-> 1, sparse_liquidity_map |-> FALSE]

\* isinstance(pool, AerodromeV2Pool | UniswapV2Pool)
IsV2Pool(pool) == pool.family \in {"AerodromeV2", "UniswapV2"}

\* isinstance(pool, UniswapV3Pool)
IsV3Pool(pool) == pool.family = "UniswapV3"

\* the address of an ERC-20 token object
TokenAddress(token) ==
    CASE token = "A" -> "0xTokenA"
      [] token = "B" -> "0xTokenB"
      [] token = "C" -> "0xTokenC"

(***************************************************************************)
(* Pool states, one variant per family.                                    *)
(***************************************************************************)
V2States(kind) ==
    [kind : {kind}, reserves_token0 : 0..MaxReserve, reserves_token1 : 0..MaxReserve]

V3States ==
    [kind : {"UniswapV3PoolState"}, sqrt_price_x96 : 0..MaxSqrtPrice,
     tick_data : SUBSET Ticks]

\* the states a pool of the given family publishes
StatesOf(pool) ==
    CASE pool.family = "UniswapV2" -> V2States("UniswapV2PoolState")
      [] pool.family = "AerodromeV2" -> V2States("AerodromeV2PoolState")
      [] pool.family = "UniswapV3" -> V3States

IsV2State(state) == state.kind \in {"AerodromeV2PoolState", "UniswapV2PoolState"}

IsV3State(state) == state.kind = "UniswapV3PoolState"

\* tick_math.get_sqrt_ratio_at_tick: strictly increasing in the tick, Q96 at tick 0
get_sqrt_ratio_at_tick(tick) == Q96 + tick

Min(S) == CHOOSE x \in S : \A y \in S : x <= y

Max(S) == CHOOSE x \in S : \A y \in S : x >= y

(***************************************************************************)
(* UniswapLpCycle.__init__, lines 81-123: the swap vectors.  The result is *)
(* the tuple of vectors, or Raised("DegenbotValueError") when a pool holds *)
(* neither the input token nor the previous hop's output token.            *)
(***************************************************************************)
\* what stands for a sequence result when the exception was raised instead
Raised(exc) == <<[raised |-> exc]>>

\* a slip in lines 93-99 and 113-119: the direction flag of the first branch is copied
VectorFor_always_zero_for_one(pool, token) ==
    IF token = pool.token0
    THEN [token_in |-> pool.token0, token_out |-> pool.token1, zero_for_one |-> TRUE]
    ELSE [token_in |-> pool.token1, token_out |-> pool.token0, zero_for_one |-> TRUE]

VectorFor(pool, token) ==
    IF token = pool.token0
    THEN [token_in |-> pool.token0, token_out |-> pool.token1, zero_for_one |-> TRUE]
    ELSE [token_in |-> pool.token1, token_out |-> pool.token0, zero_for_one |-> FALSE]

RECURSIVE BuildVectors(_, _, _)
BuildVectors(pools, token, acc) ==
    IF pools = <<>> THEN acc
    ELSE LET pool == Pool(Head(pools)) IN
         IF token \notin {pool.token0, pool.token1}
         THEN Raised("DegenbotValueError")
         ELSE LET v == VectorFor(pool, token) IN
              BuildVectors(Tail(pools), v.token_out, Append(acc, v))

SwapVectors(token, pools) == BuildVectors(pools, token, <<>>)

\* a slip in lines 253-255: the direction of the swap is ignored
_pool_is_viable_one_direction(pool, state, vector) ==
    IF IsV2Pool(pool) /\ IsV2State(state)
    THEN IF state.reserves_token0 = 0 \/ state.reserves_token1 = 0
         THEN "False"
         ELSE (IF state.reserves_token1 > 1 THEN "True" ELSE "False")
    ELSE IF IsV3Pool(pool) /\ IsV3State(state)
    THEN IF pool.sparse_liquidity_map THEN "True"
         ELSE IF state.tick_data = {} THEN "False"
         ELSE IF state.sqrt_price_x96 = 0
              THEN (IF state.tick_data # {} THEN "ValueError" ELSE "False")
         ELSE IF vector.zero_for_one
              THEN (IF get_sqrt_ratio_at_tick(Min(state.tick_data)) < state.sqrt_price_x96
                    THEN "True" ELSE "False")
              ELSE (IF get_sqrt_ratio_at_tick(Max(state.tick_data)) > state.sqrt_price_x96
                    THEN "True" ELSE "False")
    ELSE "DegenbotValueError"

\* a slip in lines 266-274: a zero price with tick data is taken as "no liquidity"
_pool_is_viable_zero_price_silent(pool, state, vector) ==
    IF IsV2Pool(pool) /\ IsV2State(state)
    THEN IF state.reserves_token0 = 0 \/ state.reserves_token1 = 0
         THEN "False"
         ELSE IF vector.zero_for_one
              THEN (IF state.reserves_token1 > 1 THEN "True" ELSE "False")
              ELSE (IF state.reserves_token0 > 1 THEN "True" ELSE "False")
    ELSE IF IsV3Pool(pool) /\ IsV3State(state)
    THEN IF pool.sparse_liquidity_map THEN "True"
         ELSE IF state.tick_data = {} THEN "False"
         ELSE IF state.sqrt_price_x96 = 0 THEN "False"
         ELSE IF vector.zero_for_one
              THEN (IF get_sqrt_ratio_at_tick(Min(state.tick_data)) < state.sqrt_price_x96
                    THEN "True" ELSE "False")
              ELSE (IF get_sqrt_ratio_at_tick(Max(state.tick_data)) > state.sqrt_price_x96
                    THEN "True" ELSE "False")
    ELSE "DegenbotValueError"

(***************************************************************************)
(* UniswapLpCycle._pool_is_viable, lines 238-292.  The result is "True",   *)
(* "False", or the name of the exception raised.                           *)
(***************************************************************************)
_pool_is_viable(pool, state, vector) ==
    IF IsV2Pool(pool) /\ IsV2State(state)
    THEN IF state.reserves_token0 = 0 \/ state.reserves_token1 = 0
         THEN "False"
         ELSE IF vector.zero_for_one
              THEN (IF state.reserves_token1 > 1 THEN "True" ELSE "False")
              ELSE (IF state.reserves_token0 > 1 THEN "True" ELSE "False")
    ELSE IF IsV3Pool(pool) /\ IsV3State(state)
    THEN IF pool.sparse_liquidity_map THEN "True"
         ELSE IF state.tick_data = {} THEN "False"
         ELSE IF state.sqrt_price_x96 = 0
              THEN (IF state.tick_data # {} THEN "ValueError" ELSE "False")
         ELSE IF vector.zero_for_one
              THEN (IF get_sqrt_ratio_at_tick(Min(state.tick_data)) < state.sqrt_price_x96
                    THEN "True" ELSE "False")
              ELSE (IF get_sqrt_ratio_at_tick(Max(state.tick_data)) > state.sqrt_price_x96
                    THEN "True" ELSE "False")
    ELSE "DegenbotValueError"

(***************************************************************************)
(* degenbot.exceptions: RateOfExchangeBelowMinimum is an ArbitrageError.   *)
(***************************************************************************)
IsArbitrageError(exc) == exc \in {"ArbitrageError", "RateOfExchangeBelowMinimum"}

(***************************************************************************)
(* The state of one cycle and of the pools of its path.                    *)
(***************************************************************************)
VARIABLES
    input_token,      \* self.input_token
    swap_pools,       \* self.swap_pools: the ids of the pools, in path order
    swap_vectors,     \* self._swap_vectors
    pool_state,       \* pool.state of every pool of the path
    pool_viability,   \* self._pool_viability, keyed by pool address
    subscribers,      \* self._subscribers
    call,             \* the operation in progress or just finished, with its inputs
    outcome,          \* how it ended: a return or the exception that escaped
    delivered,        \* how often each subscriber's notify was called by it
    optimizer_ran,    \* whether it ran _calculate (the optimizer)
    scheduled,        \* whether it submitted _calculate to the executor
    payloads          \* the list generate_payloads returned

vars == <<input_token, swap_pools, swap_vectors, pool_state, pool_viability,
          subscribers, call, outcome, delivered, optimizer_ran, scheduled, payloads>>

Subscribers == {"s1", "s2"}

NoOverrides == [a \in {} |-> 0]

DefaultMinRate == <<1, 1>>

MinRates == {<<1, 1>>, <<1, 2>>}

Idle == [op |-> "idle"]

NoneDelivered == [s \in Subscribers |-> 0]

PathIds == {swap_pools[i] : i \in 1..Len(swap_pools)}

PathAddresses == {Pool(id).address : id \in PathIds}

PoolAt(address) == Pool(CHOOSE id \in PoolIds : Pool(id).address = address)

\* a slip in line 705: the vector of the first hop is taken for every pool
IndexOf_first_hop(pools, id) == 1

\* tuple.index: the first position of the pool in the path
IndexOf(pools, id) == Min({i \in 1..Len(pools) : pools[i] = id})

RECURSIVE Product(_)
Product(seq) == IF seq = <<>> THEN 1 ELSE Head(seq) * Product(Tail(seq))

(***************************************************************************)
(* UniswapLpCycle._pre_calculation_check, lines 294-382.                   *)
(***************************************************************************)
\* lines 309-323, from pool i on: "ok", or the exception raised
RECURSIVE ViabilityGate(_, _, _)
ViabilityGate(i, state_overrides, viability) ==
    IF i > Len(swap_pools) THEN "ok"
    ELSE LET pool == Pool(swap_pools[i])
             overridden == pool.address \in DOMAIN state_overrides
             v == IF overridden
                  THEN _pool_is_viable(pool, state_overrides[pool.address],
                                       swap_vectors[IndexOf(swap_pools, pool.id)])
                  ELSE "True"
         IN  IF v \notin {"True", "False"} THEN v
             ELSE IF v = "False" \/ viability[pool.address] = FALSE
                  THEN "ArbitrageError"
                  ELSE ViabilityGate(i + 1, state_overrides, viability)

\* state_overrides.get(pool.address, pool.state)
StateUsed(pool, state_overrides, states) ==
    IF pool.address \in DOMAIN state_overrides
    THEN state_overrides[pool.address]
    ELSE states[pool.id]

\* a slip in lines 337-371: the fee is left out of the numerator
HopNumerator_no_fee(pool, vector, state) ==
    IF IsV2Pool(pool)
    THEN IF vector.zero_for_one
         THEN state.reserves_token1 * pool.fee_token0[2]
         ELSE state.reserves_token0 * pool.fee_token1[2]
    ELSE IF vector.zero_for_one
         THEN state.sqrt_price_x96 * state.sqrt_price_x96 * V3_FEE_DENOMINATOR
         ELSE Q192 * V3_FEE_DENOMINATOR

\* lines 337-371: the numerator appended for one hop
HopNumerator(pool, vector, state) ==
    IF IsV2Pool(pool)
    THEN IF vector.zero_for_one
         THEN state.reserves_token1 * (pool.fee_token0[2] - pool.fee_token0[1])
         ELSE state.reserves_token0 * (pool.fee_token1[2] - pool.fee_token1[1])
    ELSE IF vector.zero_for_one
         THEN state.sqrt_price_x96 * state.sqrt_price_x96 * (V3_FEE_DENOMINATOR - pool.fee)
         ELSE Q192 * (V3_FEE_DENOMINATOR - pool.fee)

\* lines 337-371: the denominator appended for one hop
HopDenominator(pool, vector, state) ==
    IF IsV2Pool(pool)
    THEN IF vector.zero_for_one
         THEN state.reserves_token0 * pool.fee_token0[2]
         ELSE state.reserves_token1 * pool.fee_token1[2]
    ELSE IF vector.zero_for_one
         THEN Q192 * V3_FEE_DENOMINATOR
         ELSE state.sqrt_price_x96 * state.sqrt_price_x96 * V3_FEE_DENOMINATOR

\* the pool/state pairs the match statement of line 332 recognises
RateMatch(pool, state) ==
    \/ IsV2Pool(pool) /\ IsV2State(state)
    \/ IsV3Pool(pool) /\ IsV3State(state)

exchange_rate_numerators(state_overrides, states) ==
    [i \in 1..Len(swap_pools) |->
        HopNumerator(Pool(swap_pools[i]), swap_vectors[i],
                     StateUsed(Pool(swap_pools[i]), state_overrides, states))]

exchange_rate_denominators(state_overrides, states) ==
    [i \in 1..Len(swap_pools) |->
        HopDenominator(Pool(swap_pools[i]), swap_vectors[i],
                       StateUsed(Pool(swap_pools[i]), state_overrides, states))]

\* a slip in line 381: a rate equal to the minimum is rejected too
RateCheck_not_above(min_rate_of_exchange, state_overrides, states) ==
    IF \E i \in 1..Len(swap_pools) :
          ~RateMatch(Pool(swap_pools[i]),
                     StateUsed(Pool(swap_pools[i]), state_overrides, states))
    THEN "DegenbotValueError"
    ELSE LET n == Product(exchange_rate_numerators(state_overrides, states))
             d == Product(exchange_rate_denominators(state_overrides, states))
         IN  IF d = 0 THEN "ZeroDivisionError"
             ELSE IF n * min_rate_of_exchange[2] <= min_rate_of_exchange[1] * d
                  THEN "RateOfExchangeBelowMinimum"
                  ELSE "ok"

\* lines 325-382: Fraction(prod, prod) < min_rate_of_exchange
RateCheck(min_rate_of_exchange, state_overrides, states) ==
    IF \E i \in 1..Len(swap_pools) :
          ~RateMatch(Pool(swap_pools[i]),
                     StateUsed(Pool(swap_pools[i]), state_overrides, states))
    THEN "DegenbotValueError"
    ELSE LET n == Product(exchange_rate_numerators(state_overrides, states))
             d == Product(exchange_rate_denominators(state_overrides, states))
         IN  IF d = 0 THEN "ZeroDivisionError"
             ELSE IF n * min_rate_of_exchange[2] < min_rate_of_exchange[1] * d
                  THEN "RateOfExchangeBelowMinimum"
                  ELSE "ok"

\* a slip in lines 294-382: the rate is computed before the pools are checked
_pre_calculation_check_rate_first(min_rate_of_exchange, state_overrides, viability, states) ==
    LET rate == RateCheck(min_rate_of_exchange, state_overrides, states)
    IN  IF rate # "ok" THEN rate
        ELSE ViabilityGate(1, state_overrides, viability)

_pre_calculation_check(min_rate_of_exchange, state_overrides, viability, states) ==
    LET gate == ViabilityGate(1, state_overrides, viability)
    IN  IF gate # "ok" THEN gate
        ELSE RateCheck(min_rate_of_exchange, state_overrides, states)

(***************************************************************************)
(* UniswapLpCycle.__init__, lines 125-128: the viability cache, keyed by   *)
(* address (a later hop of the same pool overwrites an earlier one).       *)
(***************************************************************************)
InitialViability(pools, vectors, states) ==
    [a \in {Pool(pools[i]).address : i \in 1..Len(pools)} |->
        LET last == Max({i \in 1..Len(pools) : Pool(pools[i]).address = a})
        IN  _pool_is_viable(Pool(pools[last]), states[pools[last]], vectors[last]) = "True"]

\* construction succeeds: the vectors are found and no viability check faults
Constructible(token, pools, states) ==
    /\ SwapVectors(token, pools) # Raised("DegenbotValueError")
    /\ \A i \in 1..Len(pools) :
          _pool_is_viable(Pool(pools[i]), states[pools[i]],
                          SwapVectors(token, pools)[i]) \in {"True", "False"}

\* the cycles of the engine specification: <<input token, pools>>
EngineCycles ==
    { <<"A", <<1, 2>>>>,     \* constant-product 0->1, then constant-product 1->0
      <<"A", <<2, 3>>>>,     \* constant-product 0->1, then concentrated 1->0
      <<"A", <<3, 4>>>> }    \* concentrated 0->1, then sparse concentrated 1->0

InitCycle(token, pools, states) ==
    /\ input_token = token
    /\ swap_pools = pools
    /\ swap_vectors = SwapVectors(token, pools)
    /\ pool_state = states
    /\ pool_viability = InitialViability(pools, SwapVectors(token, pools), states)
    /\ subscribers = {}
    /\ call = Idle
    /\ outcome = "none"
    /\ delivered = NoneDelivered
    /\ optimizer_ran = FALSE
    /\ scheduled = FALSE
    /\ payloads = <<>>

PoolStatesOf(pools) ==
    {st \in [{pools[i] : i \in 1..Len(pools)} ->
                UNION {StatesOf(Pool(pools[i])) : i \in 1..Len(pools)}] :
        \A i \in 1..Len(pools) : st[pools[i]] \in StatesOf(Pool(pools[i]))}

Init ==
    \E c \in EngineCycles : \E states \in PoolStatesOf(c[2]) :
        /\ Constructible(c[1], c[2], states)
        /\ InitCycle(c[1], c[2], states)

(***************************************************************************)
(* UniswapLpCycle._notify_subscribers, lines 52-54: how often each         *)
(* subscriber's notify is called.                                          *)
(***************************************************************************)
_notify_subscribers ==
    [s \in Subscribers |-> IF s \in subscribers THEN 1 ELSE 0]

(***************************************************************************)
(* UniswapLpCycle.notify, lines 692-716.  `states` are the pools' states   *)
(* at the time of the call (pool.state is read by the pre-check).          *)
(***************************************************************************)
PoolClasses == {"AerodromeV2", "AerodromeV3", "UniswapV2", "UniswapV3"}

RecognisedStateKinds ==
    {"AerodromeV2PoolState", "UniswapV2PoolState", "UniswapV3PoolState"}

\* a slip in lines 697-700: the type of the state in the message is not checked
Handled_any_state(publisher, message) ==
    /\ publisher.class \in PoolClasses
    /\ message.class = "PoolStateMessage"
    /\ publisher.id \in PathIds

\* the guard of the first case of the match statement, lines 694-700
Handled(publisher, message) ==
    /\ publisher.class \in PoolClasses
    /\ message.class = "PoolStateMessage"
    /\ publisher.id \in PathIds
    /\ message.state.kind \in RecognisedStateKinds

\* a slip in lines 708-713: the subscribers are notified after the try statement,
\* whether or not the pre-calculation check raised ArbitrageError
notify_after_try(publisher, message, states) ==
    IF Handled(publisher, message)
    THEN LET pool == Pool(publisher.id)
             v == _pool_is_viable(pool, message.state,
                                  swap_vectors[IndexOf(swap_pools, pool.id)])
         IN  IF v \notin {"True", "False"}
             THEN /\ pool_viability' = pool_viability
                  /\ delivered' = NoneDelivered
                  /\ outcome' = v
             ELSE LET cache == [pool_viability EXCEPT ![pool.address] = (v = "True")]
                      pre == _pre_calculation_check(DefaultMinRate, NoOverrides,
                                                    cache, states)
                  IN  /\ pool_viability' = cache
                      /\ IF IsArbitrageError(pre) \/ pre = "ok"
                         THEN delivered' = _notify_subscribers /\ outcome' = "returned"
                         ELSE delivered' = NoneDelivered /\ outcome' = pre
    ELSE /\ pool_viability' = pool_viability
         /\ delivered' = NoneDelivered
         /\ outcome' = "logged"

notify(publisher, message, states) ==
    IF Handled(publisher, message)
    THEN LET pool == Pool(publisher.id)
             v == _pool_is_viable(pool, message.state,
                                  swap_vectors[IndexOf(swap_pools, pool.id)])
         IN  IF v \notin {"True", "False"}
             THEN /\ pool_viability' = pool_viability
                  /\ delivered' = NoneDelivered
                  /\ outcome' = v
             ELSE LET cache == [pool_viability EXCEPT ![pool.address] = (v = "True")]
                      pre == _pre_calculation_check(DefaultMinRate, NoOverrides,
                                                    cache, states)
                  IN  /\ pool_viability' = cache
                      /\ IF IsArbitrageError(pre)
                         THEN delivered' = NoneDelivered /\ outcome' = "returned"
                         ELSE IF pre = "ok"
                         THEN delivered' = _notify_subscribers /\ outcome' = "returned"
                         ELSE delivered' = NoneDelivered /\ outcome' = pre
    ELSE /\ pool_viability' = pool_viability
         /\ delivered' = NoneDelivered
         /\ outcome' = "logged"

PoolPublisher(id) == [class |-> Pool(id).family, id |-> id]

\* publishers that are no pool of the Pool union: a weighted pool, another cycle
OtherPublishers ==
    {[class |-> "BalancerV2Pool", id |-> 0], [class |-> "UniswapLpCycle", id |-> 0]}

PoolStateMessage(state) == [class |-> "PoolStateMessage", state |-> state]

TextMessage == [class |-> "TextMessage", state |-> [kind |-> "None"]]

BalancerState == [kind |-> "BalancerV2PoolState"]

\* A pool of the path replaces its state and publishes it to the cycle.
PoolStateUpdate ==
    /\ call = Idle
    /\ \E id \in PathIds : \E s \in StatesOf(Pool(id)) :
          /\ pool_state' = [pool_state EXCEPT ![id] = s]
          /\ call' = [op |-> "notify", publisher |-> PoolPublisher(id),
                      message |-> PoolStateMessage(s)]
          /\ notify(PoolPublisher(id), PoolStateMessage(s), pool_state')
    /\ UNCHANGED <<input_token, swap_pools, swap_vectors, subscribers,
                   optimizer_ran, scheduled, payloads>>

\* the messages the cycle can receive that are not a state of a pool of its path
UnrelatedNotifications ==
    {<<PoolPublisher(id), PoolStateMessage(s)>> :
        id \in PoolIds \ PathIds, s \in {[kind |-> "UniswapV2PoolState",
                                           reserves_token0 |-> 0, reserves_token1 |-> 0]}}
    \cup {<<PoolPublisher(id), m>> :
        id \in PoolIds, m \in {TextMessage, PoolStateMessage(BalancerState)}}
    \cup {<<pub, m>> :
        pub \in OtherPublishers, m \in {TextMessage, PoolStateMessage(BalancerState)}}

\* Any other publisher or message reaches notify.
Notify ==
    /\ call = Idle
    /\ \E n \in UnrelatedNotifications :
          /\ call' = [op |-> "notify", publisher |-> n[1], message |-> n[2]]
          /\ notify(n[1], n[2], pool_state)
    /\ UNCHANGED <<input_token, swap_pools, swap_vectors, pool_state, subscribers,
                   optimizer_ran, scheduled, payloads>>

\* PublisherMixin.subscribe: an observer registers with the cycle.
Subscribe ==
    /\ call = Idle
    /\ \E s \in Subscribers \ subscribers : subscribers' = subscribers \cup {s}
    /\ UNCHANGED <<input_token, swap_pools, swap_vectors, pool_state, pool_viability,
                   call, outcome, delivered, optimizer_ran, scheduled, payloads>>

\* The WeakSet drops an observer that is no longer referenced.
Drop ==
    /\ call = Idle
    /\ \E s \in subscribers : subscribers' = subscribers \ {s}
    /\ UNCHANGED <<input_token, swap_pools, swap_vectors, pool_state, pool_viability,
                   call, outcome, delivered, optimizer_ran, scheduled, payloads>>

(***************************************************************************)
(* The callers' inputs to the pre-check and to calculate.                  *)
(***************************************************************************)
\* the states a caller passes as an override for the pool
OverrideStatesOf(pool) ==
    IF IsV2Pool(pool)
    THEN {s \in StatesOf(pool) : /\ s.reserves_token0 \in {0, MaxReserve}
                                 /\ s.reserves_token1 \in {1, MaxReserve}}
    ELSE {s \in StatesOf(pool) : s.sqrt_price_x96 \in {0, Q96}}

\* the state_overrides mappings: any subset of the path's pools, keyed by address
OverrideMaps ==
    UNION {{ov \in [D -> UNION {OverrideStatesOf(PoolAt(a)) : a \in D}] :
                \A a \in D : ov[a] \in OverrideStatesOf(PoolAt(a))} :
           D \in SUBSET PathAddresses}

Executors == {"ProcessPoolExecutor", "ThreadPoolExecutor"}

\* _pre_calculation_check called directly
PreCheck ==
    /\ call = Idle
    /\ \E r \in MinRates : \E ov \in OverrideMaps :
          /\ call' = [op |-> "pre_check", min_rate_of_exchange |-> r,
                      state_overrides |-> ov]
          /\ outcome' = _pre_calculation_check(r, ov, pool_viability, pool_state)
    /\ UNCHANGED <<input_token, swap_pools, swap_vectors, pool_state, pool_viability,
                   subscribers, delivered, optimizer_ran, scheduled, payloads>>

(***************************************************************************)
(* UniswapLpCycle.calculate, lines 492-507.  Of _calculate only the fact   *)
(* that the optimizer ran is recorded here.                                *)
(***************************************************************************)
calculate(state_overrides, min_rate_of_exchange) ==
    LET pre == _pre_calculation_check(min_rate_of_exchange, state_overrides,
                                      pool_viability, pool_state)
    IN  IF pre # "ok"
        THEN outcome' = pre /\ optimizer_ran' = FALSE
        ELSE outcome' = "result" /\ optimizer_ran' = TRUE

Calculate ==
    /\ call = Idle
    /\ \E r \in MinRates : \E ov \in OverrideMaps :
          /\ call' = [op |-> "calculate", min_rate_of_exchange |-> r,
                      state_overrides |-> ov]
          /\ calculate(ov, r)
    /\ UNCHANGED <<input_token, swap_pools, swap_vectors, pool_state, pool_viability,
                   subscribers, delivered, scheduled, payloads>>

(***************************************************************************)
(* UniswapLpCycle.calculate_with_pool, lines 509-556.                      *)
(***************************************************************************)
\* a slip in lines 540-551: the executor is looked at after the pre-calculation check
calculate_with_pool_check_first(executor, state_overrides, min_rate_of_exchange) ==
    LET pre == _pre_calculation_check(min_rate_of_exchange, state_overrides,
                                      pool_viability, pool_state)
    IN  IF pre # "ok"
        THEN outcome' = pre /\ scheduled' = FALSE
        ELSE IF /\ executor = "ProcessPoolExecutor"
                /\ \E id \in PathIds : IsV3Pool(Pool(id)) /\ Pool(id).sparse_liquidity_map
        THEN outcome' = "DegenbotValueError" /\ scheduled' = FALSE
        ELSE outcome' = "future" /\ scheduled' = TRUE

calculate_with_pool(executor, state_overrides, min_rate_of_exchange) ==
    IF /\ executor = "ProcessPoolExecutor"
       /\ \E id \in PathIds : IsV3Pool(Pool(id)) /\ Pool(id).sparse_liquidity_map
    THEN outcome' = "DegenbotValueError" /\ scheduled' = FALSE
    ELSE LET pre == _pre_calculation_check(min_rate_of_exchange, state_overrides,
                                           pool_viability, pool_state)
         IN  IF pre # "ok"
             THEN outcome' = pre /\ scheduled' = FALSE
             ELSE outcome' = "future" /\ scheduled' = TRUE

CalculateWithPool ==
    /\ call = Idle
    /\ \E e \in Executors : \E r \in MinRates : \E ov \in OverrideMaps :
          /\ call' = [op |-> "calculate_with_pool", executor |-> e,
                      min_rate_of_exchange |-> r, state_overrides |-> ov]
          /\ calculate_with_pool(e, ov, r)
    /\ UNCHANGED <<input_token, swap_pools, swap_vectors, pool_state, pool_viability,
                   subscribers, delivered, optimizer_ran, payloads>>

\* The executor runs the submitted _calculate.
ExecutorRun ==
    /\ scheduled
    /\ ~optimizer_ran
    /\ optimizer_ran' = TRUE
    /\ UNCHANGED <<input_token, swap_pools, swap_vectors, pool_state, pool_viability,
                   subscribers, call, outcome, delivered, scheduled, payloads>>

\* The caller has taken the result; the cycle waits for the next call.
Return ==
    /\ call # Idle
    /\ call' = Idle
    /\ outcome' = "none"
    /\ delivered' = NoneDelivered
    /\ optimizer_ran' = FALSE
    /\ scheduled' = FALSE
    /\ payloads' = <<>>
    /\ UNCHANGED <<input_token, swap_pools, swap_vectors, pool_state, pool_viability,
                   subscribers>>

(***************************************************************************)
(* UniswapLpCycle.generate_payloads, lines 558-690.  An encoded call is    *)
(* kept as its function signature and its argument tuple.                  *)
(***************************************************************************)
\* eth_utils.to_checksum_address on the caller's address
to_checksum_address(address) ==
    IF address = "0xcaller" THEN "0xCaller" ELSE address

FromAddresses == {"0xcaller", "0xCaller"}

\* UniswapV2PoolSwapAmounts for a pool, by direction and output amount
V2SwapAmounts(pool) ==
    {[class |-> "UniswapV2PoolSwapAmounts", pool |-> pool.address,
      amounts_in |-> IF z THEN <<x, 0>> ELSE <<0, x>>,
      amounts_out |-> IF z THEN <<0, y>> ELSE <<y, 0>>] :
        z \in BOOLEAN, x \in {MaxAmount}, y \in 1..MaxAmount}

\* UniswapV3PoolSwapAmounts for a pool, as _build_swap_amounts fills them
V3SwapAmounts(pool) ==
    {[class |-> "UniswapV3PoolSwapAmounts", pool |-> pool.address,
      amount_specified |-> x, zero_for_one |-> z,
      sqrt_price_limit_x96 |-> IF z THEN MIN_SQRT_RATIO + 1 ELSE MAX_SQRT_RATIO - 1] :
        z \in BOOLEAN, x \in 1..MaxAmount}

\* a slip in lines 598-603: the family of the hop's own pool decides, not the next one's
swap_destination_address_own_pool(i, from_address) ==
    IF i < Len(swap_pools) /\ IsV2Pool(Pool(swap_pools[i]))
    THEN Pool(swap_pools[i + 1]).address
    ELSE from_address

\* lines 598-603
swap_destination_address(i, from_address) ==
    IF i < Len(swap_pools) /\ IsV2Pool(Pool(swap_pools[i + 1]))
    THEN Pool(swap_pools[i + 1]).address
    ELSE from_address

\* lines 605-688: what one iteration of the loop appends for hop i (1-based),
\* or Raised("DegenbotValueError")
HopPayloads(i, from_address, swap_amount, _swap_amounts) ==
    LET swap_pool == Pool(swap_pools[i])
        destination == swap_destination_address(i, from_address)
    IN  IF i = 1 /\ IsV2Pool(swap_pool)
        THEN << [target |-> TokenAddress(input_token),
                 selector |-> "transfer(address,uint256)",
                 args |-> [to |-> swap_pool.address, amount |-> swap_amount],
                 value |-> 0] >>
        ELSE IF IsV2Pool(swap_pool) /\ _swap_amounts.class = "UniswapV2PoolSwapAmounts"
        THEN << [target |-> swap_pool.address,
                 selector |-> "swap(uint256,uint256,address,bytes)",
                 args |-> [amount0Out |-> _swap_amounts.amounts_out[1],
                           amount1Out |-> _swap_amounts.amounts_out[2],
                           to |-> destination, data |-> ""],
                 value |-> 0] >>
        ELSE IF IsV3Pool(swap_pool) /\ _swap_amounts.class = "UniswapV3PoolSwapAmounts"
        THEN << [target |-> swap_pool.address,
                 selector |-> "swap(address,bool,int256,uint160,bytes)",
                 args |-> [recipient |-> destination,
                           zeroForOne |-> _swap_amounts.zero_for_one,
                           amountSpecified |-> _swap_amounts.amount_specified,
                           sqrtPriceLimitX96 |-> _swap_amounts.sqrt_price_limit_x96,
                           data |-> ""],
                 value |-> 0] >>
        ELSE Raised("DegenbotValueError")

\* the loop of lines 594-688 from hop i on; zip(strict=True) raises ValueError
\* when one of the two sequences ends before the other
RECURSIVE PayloadLoop(_, _, _, _, _)
PayloadLoop(i, from_address, swap_amount, pool_swap_amounts, acc) ==
    IF i > Len(swap_pools) /\ i > Len(pool_swap_amounts)
    THEN [outcome |-> "returned", payloads |-> acc]
    ELSE IF i > Len(swap_pools) \/ i > Len(pool_swap_amounts)
    THEN [outcome |-> "ValueError", payloads |-> <<>>]
    ELSE LET hop == HopPayloads(i, from_address, swap_amount, pool_swap_amounts[i])
         IN  IF hop = Raised("DegenbotValueError")
             THEN [outcome |-> "DegenbotValueError", payloads |-> <<>>]
             ELSE PayloadLoop(i + 1, from_address, swap_amount, pool_swap_amounts,
                              acc \o hop)

generate_payloads(from_address, swap_amount, pool_swap_amounts) ==
    PayloadLoop(1, to_checksum_address(from_address), swap_amount,
                pool_swap_amounts, <<>>)

\* the swap amounts a caller may hand in for hop i: those of the pool's family,
\* and one record of the other family
AmountsFor(i) ==
    LET pool == Pool(swap_pools[i])
    IN  IF IsV2Pool(pool)
        THEN V2SwapAmounts(pool)
             \cup {a \in V3SwapAmounts(pool) : a.zero_for_one /\ a.amount_specified = 1}
        ELSE V3SwapAmounts(pool)
             \cup {a \in V2SwapAmounts(pool) : a.amounts_out = <<0, 1>>}

\* the pool_swap_amounts sequences: one entry per hop, or the last hop missing
AmountSequences ==
    UNION {{a \in [1..n -> UNION {AmountsFor(i) : i \in 1..n}] :
                \A i \in 1..n : a[i] \in AmountsFor(i)} :
           n \in {Len(swap_pools) - 1, Len(swap_pools)} \ {0}}

GeneratePayloads ==
    /\ call = Idle
    /\ \E f \in FromAddresses : \E x \in 1..MaxAmount : \E a \in AmountSequences :
          /\ call' = [op |-> "generate_payloads", from_address |-> f,
                      swap_amount |-> x, pool_swap_amounts |-> a]
          /\ outcome' = generate_payloads(f, x, a).outcome
          /\ payloads' = generate_payloads(f, x, a).payloads
    /\ UNCHANGED <<input_token, swap_pools, swap_vectors, pool_state, pool_viability,
                   subscribers, delivered, optimizer_ran, scheduled>>

Next ==
    \/ PoolStateUpdate
    \/ Notify
    \/ Subscribe
    \/ Drop
    \/ PreCheck
    \/ Calculate
    \/ CalculateWithPool
    \/ ExecutorRun
    \/ Return

Spec == Init /\ [][Next]_vars

(***************************************************************************)
(* The payload builder on every cycle of up to three distinct pools.  It   *)
(* reads no pool state, so the pools keep one state each.                  *)
(***************************************************************************)
Injective(seq) == \A i, j \in 1..Len(seq) : seq[i] = seq[j] => i = j

PayloadCycles ==
    {c \in Tokens \X UNION {[1..n -> PoolIds] : n \in 1..3} :
        /\ Injective(c[2])
        /\ SwapVectors(c[1], c[2]) # Raised("DegenbotValueError")}

SettledState(pool) ==
    IF IsV2Pool(pool)
    THEN [kind |-> IF pool.family = "UniswapV2" THEN "UniswapV2PoolState"
                   ELSE "AerodromeV2PoolState",
          reserves_token0 |-> MaxReserve, reserves_token1 |-> MaxReserve]
    ELSE [kind |-> "UniswapV3PoolState", sqrt_price_x96 |-> Q96, tick_data |-> Ticks]

InitPayloads ==
    \E c \in PayloadCycles :
        InitCycle(c[1], c[2], [id \in {c[2][i] : i \in 1..Len(c[2])} |->
                                    SettledState(Pool(id))])

NextPayloads ==
    \/ GeneratePayloads
    \/ Return

SpecPayloads == InitPayloads /\ [][NextPayloads]_vars

(***************************************************************************)
(* UniswapLpCycle.__init__ as an operation, lines 56-132: any input token  *)
(* and any sequence of up to three pools (pools may repeat, the path may   *)
(* be broken), each pool in a settled state or, for a concentrated pool,   *)
(* possibly in the inconsistent one.  Before the call no cycle exists and  *)
(* the variables hold placeholders.                                        *)
(***************************************************************************)
MaxHops == 3

ConstructorPaths == UNION {[1..n -> PoolIds] : n \in 0..MaxHops}

ConstructionStatesOf(pool) ==
    {SettledState(pool)} \cup
    (IF IsV3Pool(pool)
     THEN {[kind |-> "UniswapV3PoolState", sqrt_price_x96 |-> 0, tick_data |-> Ticks]}
     ELSE {})

ConstructionStates(pools) ==
    LET ids == {pools[i] : i \in 1..Len(pools)}
    IN  {st \in [ids -> UNION {ConstructionStatesOf(Pool(id)) : id \in ids}] :
            \A id \in ids : st[id] \in ConstructionStatesOf(Pool(id))}

InitConstruct ==
    /\ input_token = "none"
    /\ swap_pools = <<>>
    /\ swap_vectors = <<>>
    /\ pool_state = <<>>
    /\ pool_viability = <<>>
    /\ subscribers = {}
    /\ call = Idle
    /\ outcome = "none"
    /\ delivered = NoneDelivered
    /\ optimizer_ran = FALSE
    /\ scheduled = FALSE
    /\ payloads = <<>>

Construct ==
    /\ call = Idle
    /\ \E token \in Tokens : \E pools \in ConstructorPaths :
       \E states \in ConstructionStates(pools) :
          LET vectors == SwapVectors(token, pools)
          IN  /\ call' = [op |-> "__init__", input_token |-> token,
                          swap_pools |-> pools, states |-> states]
              /\ IF vectors = Raised("DegenbotValueError")
                 THEN /\ outcome' = "DegenbotValueError"
                      /\ UNCHANGED <<input_token, swap_pools, swap_vectors,
                                     pool_state, pool_viability>>
                 ELSE IF ~Constructible(token, pools, states)
                 THEN /\ outcome' = "ValueError"
                      /\ UNCHANGED <<input_token, swap_pools, swap_vectors,
                                     pool_state, pool_viability>>
                 ELSE /\ outcome' = "constructed"
                      /\ input_token' = token
                      /\ swap_pools' = pools
                      /\ swap_vectors' = vectors
                      /\ pool_state' = states
                      /\ pool_viability' = InitialViability(pools, vectors, states)
    /\ UNCHANGED <<subscribers, delivered, optimizer_ran, scheduled, payloads>>

NextConstruct == Construct

SpecConstruct == InitConstruct /\ [][NextConstruct]_vars

(***************************************************************************)
(* The pools' swap calculation, pool.calculate_tokens_out_from_tokens_in.  *)
(* The result is the amount of the other token, or the error raised: a     *)
(* liquidity error for an input that is not positive or a constant-product *)
(* pool with an empty reserve, the revert of the price math for a          *)
(* concentrated pool without a price.                                      *)
(***************************************************************************)
SwapFaults == {"LiquidityPoolError", "EVMRevertError"}

Returns(amount) == [raised |-> "none", amount |-> amount]

Raises(exc) == [raised |-> exc, amount |-> 0]

calculate_tokens_out_from_tokens_in(pool, token_in, token_in_quantity, override_state) ==
    LET zero_for_one == token_in = pool.token0
    IN  IF token_in_quantity <= 0 THEN Raises("LiquidityPoolError")
        ELSE IF IsV2Pool(pool)
        THEN LET fee == IF zero_for_one THEN pool.fee_token0 ELSE pool.fee_token1
                 reserve_in == IF zero_for_one THEN override_state.reserves_token0
                               ELSE override_state.reserves_token1
                 reserve_out == IF zero_for_one THEN override_state.reserves_token1
                                ELSE override_state.reserves_token0
                 amount_in_with_fee == token_in_quantity * (fee[2] - fee[1])
             IN  IF reserve_in = 0 \/ reserve_out = 0 THEN Raises("LiquidityPoolError")
                 ELSE Returns((amount_in_with_fee * reserve_out)
                                  \div (reserve_in * fee[2] + amount_in_with_fee))
        ELSE LET price == override_state.sqrt_price_x96 * override_state.sqrt_price_x96
                 after_fee == token_in_quantity * (V3_FEE_DENOMINATOR - pool.fee)
             IN  IF price = 0 THEN Raises("EVMRevertError")
                 ELSE IF zero_for_one
                      THEN Returns((after_fee * price) \div (Q192 * V3_FEE_DENOMINATOR))
                      ELSE Returns((after_fee * Q192) \div (price * V3_FEE_DENOMINATOR))

(***************************************************************************)
(* UniswapLpCycle._calculate, lines 384-490.                               *)
(***************************************************************************)
\* self.max_input
MaxInput == 3

\* the optimizer's probes are multiples of 1/XResolution
XResolution == 2

\* the x of minimize_scalar: bounds (1.0, max_input), in units of 1/XResolution
Probes == XResolution..(MaxInput * XResolution)

\* a slip in line 405: the input is rounded up
int_round_up(x) == (x + XResolution - 1) \div XResolution

\* int(x), line 405
int(x) == x \div XResolution

\* lines 392-394: the states of the run, keyed by address
PoolStates(state_overrides, states) ==
    [a \in PathAddresses \cup DOMAIN state_overrides |->
        IF a \in DOMAIN state_overrides THEN state_overrides[a]
        ELSE states[PoolAt(a).id]]

\* the cases of the match statements of lines 414-438
SamePoolAndState(pool, state) ==
    \/ pool.family = "AerodromeV2" /\ state.kind = "AerodromeV2PoolState"
    \/ pool.family = "UniswapV2" /\ state.kind = "UniswapV2PoolState"
    \/ pool.family = "UniswapV3" /\ state.kind = "UniswapV3PoolState"

\* lines 409-442 from hop i on, token_in_quantity entering it: the output of
\* the last hop, or the exception raised on the way
RECURSIVE ProfitLoop(_, _, _)
ProfitLoop(i, token_in_quantity, pool_states) ==
    IF i > Len(swap_pools) THEN Returns(token_in_quantity)
    ELSE LET pool == Pool(swap_pools[i])
             state == pool_states[pool.address]
         IN  IF ~SamePoolAndState(pool, state) THEN Raises("DegenbotValueError")
             ELSE LET out == calculate_tokens_out_from_tokens_in(
                                 pool, swap_vectors[i].token_in, token_in_quantity, state)
                  IN  IF out.raised # "none" \/ i = Len(swap_pools) THEN out
                      ELSE ProfitLoop(i + 1, out.amount, pool_states)

\* a slip in line 412: the state is read from the pool at every probe
arb_profit_live_state(x, pool_states) ==
    LET live == PoolStates(call.state_overrides, pool_state)
        token_in_quantity == int(x)
        last == IF swap_pools = <<>> THEN Returns(0)
                ELSE ProfitLoop(1, token_in_quantity, live)
        token_out_quantity == IF last.raised \in SwapFaults THEN 0 ELSE last.amount
    IN  IF last.raised = "DegenbotValueError"
        THEN [x |-> x, raised |-> "DegenbotValueError"]
        ELSE [x |-> x, raised |-> "none",
              token_in_quantity |-> token_in_quantity,
              token_out_quantity |-> token_out_quantity,
              caught |-> last.raised,
              fun |-> -(token_out_quantity - token_in_quantity)]

\* lines 404-452.  The value is the negated profit, a float: the conversion is
\* exact for the magnitudes of the model (below 2^53).
arb_profit(x, pool_states) ==
    LET token_in_quantity == int(x)
        last == IF swap_pools = <<>> THEN Returns(0)
                ELSE ProfitLoop(1, token_in_quantity, pool_states)
        token_out_quantity == IF last.raised \in SwapFaults THEN 0 ELSE last.amount
    IN  IF last.raised = "DegenbotValueError"
        THEN [x |-> x, raised |-> "DegenbotValueError"]
        ELSE [x |-> x, raised |-> "none",
              token_in_quantity |-> token_in_quantity,
              token_out_quantity |-> token_out_quantity,
              caught |-> last.raised,
              fun |-> -(token_out_quantity - token_in_quantity)]

(***************************************************************************)
(* UniswapLpCycle._build_swap_amounts, lines 147-236.                      *)
(***************************************************************************)
\* a slip in lines 209-228: the price limits of the two directions are exchanged
SwapAmountsRecord_limits_exchanged(pool, swap_vector, _token_in_quantity, _token_out_quantity) ==
    IF IsV2Pool(pool)
    THEN [class |-> "UniswapV2PoolSwapAmounts", pool |-> pool.address,
          amounts_in |-> IF swap_vector.zero_for_one THEN <<_token_in_quantity, 0>>
                         ELSE <<0, _token_in_quantity>>,
          amounts_out |-> IF swap_vector.zero_for_one THEN <<0, _token_out_quantity>>
                          ELSE <<_token_out_quantity, 0>>]
    ELSE [class |-> "UniswapV3PoolSwapAmounts", pool |-> pool.address,
          amount_specified |-> _token_in_quantity,
          zero_for_one |-> swap_vector.zero_for_one,
          sqrt_price_limit_x96 |-> IF swap_vector.zero_for_one THEN MAX_SQRT_RATIO - 1
                                   ELSE MIN_SQRT_RATIO + 1]

\* lines 166-232: the record appended for one hop
SwapAmountsRecord(pool, swap_vector, _token_in_quantity, _token_out_quantity) ==
    IF IsV2Pool(pool)
    THEN [class |-> "UniswapV2PoolSwapAmounts", pool |-> pool.address,
          amounts_in |-> IF swap_vector.zero_for_one THEN <<_token_in_quantity, 0>>
                         ELSE <<0, _token_in_quantity>>,
          amounts_out |-> IF swap_vector.zero_for_one THEN <<0, _token_out_quantity>>
                          ELSE <<_token_out_quantity, 0>>]
    ELSE [class |-> "UniswapV3PoolSwapAmounts", pool |-> pool.address,
          amount_specified |-> _token_in_quantity,
          zero_for_one |-> swap_vector.zero_for_one,
          sqrt_price_limit_x96 |-> IF swap_vector.zero_for_one THEN MIN_SQRT_RATIO + 1
                                   ELSE MAX_SQRT_RATIO - 1]

\* a slip in lines 172-175: a hop without output is recorded like any other
RECURSIVE SwapAmountsLoop_keep_zero(_, _, _, _)
SwapAmountsLoop_keep_zero(i, _token_in_quantity, pool_state_overrides, swap_amounts) ==
    IF i > Len(swap_pools) THEN [outcome |-> "returned", swap_amounts |-> swap_amounts]
    ELSE LET pool == Pool(swap_pools[i])
             state == pool_state_overrides[pool.address]
         IN  IF ~SamePoolAndState(pool, state)
             THEN [outcome |-> "DegenbotValueError", swap_amounts |-> <<>>]
             ELSE LET out == calculate_tokens_out_from_tokens_in(
                                 pool, swap_vectors[i].token_in, _token_in_quantity, state)
                  IN  IF out.raised = "LiquidityPoolError"
                      THEN [outcome |-> "ArbitrageError", swap_amounts |-> <<>>]
                      ELSE IF out.raised = "EVMRevertError"
                      THEN [outcome |-> "EVMRevertError", swap_amounts |-> <<>>]
                      ELSE SwapAmountsLoop_keep_zero(i + 1, out.amount, pool_state_overrides,
                               Append(swap_amounts,
                                      SwapAmountsRecord(pool, swap_vectors[i],
                                                        _token_in_quantity, out.amount)))

\* the loop of lines 159-234 from hop i on
RECURSIVE SwapAmountsLoop(_, _, _, _)
SwapAmountsLoop(i, _token_in_quantity, pool_state_overrides, swap_amounts) ==
    IF i > Len(swap_pools) THEN [outcome |-> "returned", swap_amounts |-> swap_amounts]
    ELSE LET pool == Pool(swap_pools[i])
             state == pool_state_overrides[pool.address]
         IN  IF ~SamePoolAndState(pool, state)
             THEN [outcome |-> "DegenbotValueError", swap_amounts |-> <<>>]
             ELSE LET out == calculate_tokens_out_from_tokens_in(
                                 pool, swap_vectors[i].token_in, _token_in_quantity, state)
                  IN  IF out.raised = "LiquidityPoolError"
                         \/ (out.raised = "none" /\ out.amount = 0)
                      THEN [outcome |-> "ArbitrageError", swap_amounts |-> <<>>]
                      ELSE IF out.raised = "EVMRevertError"
                      THEN [outcome |-> "EVMRevertError", swap_amounts |-> <<>>]
                      ELSE SwapAmountsLoop(i + 1, out.amount, pool_state_overrides,
                               Append(swap_amounts,
                                      SwapAmountsRecord(pool, swap_vectors[i],
                                                        _token_in_quantity, out.amount)))

_build_swap_amounts(token_in_quantity, pool_state_overrides) ==
    SwapAmountsLoop(1, token_in_quantity, pool_state_overrides, <<>>)

\* state.block is None: the state is of no known block
NoBlock == -1

\* lines 471-480: the loop over pool_states.values(), the keys in `order`
RECURSIVE NewestBlock(_, _, _)
NewestBlock(order, pool_states, newest_state_block) ==
    IF order = <<>> THEN newest_state_block
    ELSE LET block == pool_states[Head(order)].block
         IN  IF block = NoBlock THEN NoBlock
             ELSE NewestBlock(Tail(order), pool_states,
                      IF newest_state_block # NoBlock /\ newest_state_block > block
                      THEN newest_state_block ELSE block)

\* the keys of a dict in insertion order: the pools in path order (a repeated
\* address keeps its first place), then the keys only state_overrides has
RECURSIVE KeyOrder(_, _)
KeyOrder(i, seen) ==
    IF i > Len(swap_pools) THEN <<>>
    ELSE LET a == Pool(swap_pools[i]).address
         IN  IF a \in seen THEN KeyOrder(i + 1, seen)
             ELSE <<a>> \o KeyOrder(i + 1, seen \cup {a})

RECURSIVE SetToSeq(_)
SetToSeq(S) ==
    IF S = {} THEN <<>>
    ELSE LET a == CHOOSE b \in S : TRUE IN <<a>> \o SetToSeq(S \ {a})

newest_state_block(pool_states) ==
    NewestBlock(KeyOrder(1, {}) \o SetToSeq(DOMAIN pool_states \ PathAddresses),
                pool_states, NoBlock)

\* lines 459-490: what _calculate does with the optimizer's result `opt`, which
\* is one of the points it probed: the exception raised, or the result
ArbitrageCalculationResult(opt, pool_states) ==
    LET swap_amount == int(opt.x)
        best_amounts == _build_swap_amounts(swap_amount, pool_states)
    IN  IF best_amounts.outcome # "returned"
        THEN [outcome |-> best_amounts.outcome, result |-> <<>>]
        ELSE [outcome |-> "result",
              result |-> << [input_token |-> input_token,
                             profit_token |-> input_token,
                             input_amount |-> swap_amount,
                             profit_amount |-> -opt.fun,
                             swap_amounts |-> best_amounts.swap_amounts,
                             state_block |-> newest_state_block(pool_states)] >>]

(***************************************************************************)
(* The optimization run, step by step: calculate starts it in the caller's *)
(* thread, calculate_with_pool hands it to an executor, whose worker       *)
(* starts it later.  The pools' states may be replaced (and the cycle      *)
(* notified) at any moment in between.                                     *)
(***************************************************************************)
MaxBlock == 2

Blocks == {NoBlock} \cup 1..MaxBlock

\* pool states with the block they were read at
WithBlock(S) ==
    {[f \in DOMAIN s \cup {"block"} |-> IF f = "block" THEN b ELSE s[f]] :
        s \in S, b \in Blocks}

RunStatesOf(pool) ==
    WithBlock(IF IsV2Pool(pool)
              THEN {s \in StatesOf(pool) : /\ s.reserves_token0 \in {0, 1, MaxReserve}
                                           /\ s.reserves_token1 \in {1, MaxReserve}
                                           /\ MaxReserve \in {s.reserves_token0,
                                                              s.reserves_token1}}
              ELSE {s \in StatesOf(pool) : /\ s.sqrt_price_x96 \in {0, 1, Q96}
                                           /\ s.tick_data = Ticks})

\* the state_overrides of a run: at most one pool of the path, or a pool that
\* is not part of the path, each with a state of the newest or of no block
RunOverrideMaps ==
    {NoOverrides} \cup
    UNION {{[a \in {Pool(id).address} |-> s] :
                s \in {r \in RunStatesOf(Pool(id)) :
                          /\ r.block \in {NoBlock, MaxBlock}
                          /\ IsV2Pool(Pool(id)) => r.reserves_token0 = r.reserves_token1
                          /\ IsV3Pool(Pool(id)) => r.sqrt_price_x96 = Q96}} :
           id \in PathIds \cup {Min(PoolIds \ PathIds)}}

RunCycles == EngineCycles

RunPoolStatesOf(pools) ==
    {st \in [{pools[i] : i \in 1..Len(pools)} ->
                UNION {RunStatesOf(Pool(pools[i])) : i \in 1..Len(pools)}] :
        \A i \in 1..Len(pools) :
            /\ st[pools[i]] \in RunStatesOf(Pool(pools[i]))
            /\ st[pools[i]].block = 1}

InitCalculate ==
    \E c \in RunCycles : \E states \in RunPoolStatesOf(c[2]) :
        /\ Constructible(c[1], c[2], states)
        /\ InitCycle(c[1], c[2], states)

\* the fields of `call` while a run is prepared, in flight or finished
RunCall(op, executor, r, ov, phase, pool_states) ==
    [op |-> op, executor |-> executor, min_rate_of_exchange |-> r,
     state_overrides |-> ov, phase |-> phase, pool_states |-> pool_states,
     probe |-> <<>>, result |-> <<>>]

\* calculate, lines 492-507, up to the start of the optimizer
CalculateStart ==
    /\ call = Idle
    /\ \E r \in MinRates : \E ov \in RunOverrideMaps :
          LET pre == _pre_calculation_check(r, ov, pool_viability, pool_state)
          IN  IF pre # "ok"
              THEN /\ call' = RunCall("calculate", "none", r, ov, "done", <<>>)
                   /\ outcome' = pre
                   /\ optimizer_ran' = FALSE
              ELSE /\ call' = RunCall("calculate", "none", r, ov, "optimizing",
                                      PoolStates(ov, pool_state))
                   /\ outcome' = "running"
                   /\ optimizer_ran' = TRUE
    /\ UNCHANGED <<input_token, swap_pools, swap_vectors, pool_state, pool_viability,
                   subscribers, delivered, scheduled, payloads>>

\* calculate_with_pool, lines 509-556
Dispatch ==
    /\ call = Idle
    /\ \E e \in Executors : \E r \in MinRates : \E ov \in RunOverrideMaps :
          /\ calculate_with_pool(e, ov, r)
          /\ call' = RunCall("calculate_with_pool", e, r, ov,
                             IF outcome' = "future" THEN "submitted" ELSE "done", <<>>)
    /\ UNCHANGED <<input_token, swap_pools, swap_vectors, pool_state, pool_viability,
                   subscribers, delivered, optimizer_ran, payloads>>

\* the executor's worker enters _calculate, lines 392-394
WorkerStart ==
    /\ call # Idle
    /\ call.phase = "submitted"
    /\ call' = [call EXCEPT !.phase = "optimizing",
                            !.pool_states = PoolStates(call.state_overrides, pool_state)]
    /\ optimizer_ran' = TRUE
    /\ UNCHANGED <<input_token, swap_pools, swap_vectors, pool_state, pool_viability,
                   subscribers, outcome, delivered, scheduled, payloads>>

\* minimize_scalar evaluates arb_profit at one more point, lines 404-460
Probe ==
    /\ call # Idle
    /\ call.phase = "optimizing"
    /\ \E x \in Probes :
          LET p == arb_profit(x, call.pool_states)
          IN  IF p.raised # "none"
              THEN /\ call' = [call EXCEPT !.phase = "done"]
                   /\ outcome' = IF call.op = "calculate" THEN p.raised ELSE "future"
              ELSE /\ call' = [call EXCEPT !.probe = <<p>>]
                   /\ UNCHANGED outcome
    /\ UNCHANGED <<input_token, swap_pools, swap_vectors, pool_state, pool_viability,
                   subscribers, delivered, optimizer_ran, scheduled, payloads>>

\* minimize_scalar returns the last point and _calculate finishes, lines 462-490
Finish ==
    /\ call # Idle
    /\ call.phase = "optimizing"
    /\ call.probe # <<>>
    /\ LET end == ArbitrageCalculationResult(call.probe[1], call.pool_states)
       IN  /\ call' = [call EXCEPT !.phase = "done", !.result = <<end>>]
           /\ outcome' = IF call.op = "calculate" THEN end.outcome ELSE "future"
    /\ UNCHANGED <<input_token, swap_pools, swap_vectors, pool_state, pool_viability,
                   subscribers, delivered, optimizer_ran, scheduled, payloads>>

\* a pool of the path replaces its state object by one of a later block and
\* notifies the cycle, whose notify (lines 692-713) updates the flag, while a
\* run is waiting for its worker or in flight
PoolStateReplaced ==
    /\ call # Idle
    /\ call.phase \in {"submitted", "optimizing"}
    /\ \E id \in PathIds : \E s \in RunStatesOf(Pool(id)) :
          LET v == _pool_is_viable(Pool(id), s, swap_vectors[IndexOf(swap_pools, id)])
          IN  /\ s # pool_state[id]
              /\ s.block > pool_state[id].block
              /\ pool_state' = [pool_state EXCEPT ![id] = s]
              /\ pool_viability' =
                    IF v \in {"True", "False"}
                    THEN [pool_viability EXCEPT ![Pool(id).address] = (v = "True")]
                    ELSE pool_viability
    /\ UNCHANGED <<input_token, swap_pools, swap_vectors, subscribers, call, outcome,
                   delivered, optimizer_ran, scheduled, payloads>>

\* the caller has the result (or the exception) of the finished call
RunReturn ==
    /\ call # Idle
    /\ call.phase = "done"
    /\ Return

NextCalculate ==
    \/ CalculateStart
    \/ Dispatch
    \/ WorkerStart
    \/ Probe
    \/ Finish
    \/ PoolStateReplaced
    \/ RunReturn

SpecCalculate == InitCalculate /\ [][NextCalculate]_vars

(***************************************************************************)
(*                              The claims                                 *)
(***************************************************************************)
Hops == Len(swap_pools)

PoolOfHop(i) == Pool(swap_pools[i])

SwapSelectors ==
    {"swap(uint256,uint256,address,bytes)", "swap(address,bool,int256,uint160,bytes)"}

\* the pool_swap_amounts of the call match the path in length and families
AmountsMatchPath ==
    /\ Len(call.pool_swap_amounts) = Hops
    /\ \A i \in 1..Hops :
          IF IsV2Pool(PoolOfHop(i))
          THEN call.pool_swap_amounts[i].class = "UniswapV2PoolSwapAmounts"
          ELSE call.pool_swap_amounts[i].class = "UniswapV3PoolSwapAmounts"

\* the destination address embedded in a swap call
DestinationOf(payload) ==
    IF payload.selector = "swap(uint256,uint256,address,bytes)"
    THEN payload.args.to
    ELSE payload.args.recipient

\* C1: for matching swap amounts generate_payloads returns one swap payload per
\* hop, in path order, the payload of hop i targeting pool i; a constant-product
\* first hop adds one leading transfer payload (target the input token, arguments
\* the first pool's address and swap_amount), so that the list has hops+1 entries
\* then and hops entries otherwise.
C1_OnePayloadPerHop ==
    (call.op = "generate_payloads" /\ AmountsMatchPath) =>
        LET lead == IF IsV2Pool(PoolOfHop(1)) THEN 1 ELSE 0
        IN  /\ outcome = "returned"
            /\ Len(payloads) = Hops + lead
            /\ lead = 1 =>
                  /\ payloads[1].target = TokenAddress(input_token)
                  /\ payloads[1].selector = "transfer(address,uint256)"
                  /\ payloads[1].args = [to |-> PoolOfHop(1).address,
                                         amount |-> call.swap_amount]
            /\ \A i \in 1..Hops :
                  /\ payloads[i + lead].target = PoolOfHop(i).address
                  /\ payloads[i + lead].selector \in SwapSelectors

\* C2: the destination embedded in the swap call of hop i is the address of pool
\* i+1 when hop i is not the last hop and pool i+1 is a constant-product pool, and
\* the caller's (checksummed) from_address otherwise; every payload has value 0.
\* Every hop but a constant-product first hop has such a swap call.
C2_SwapDestinations ==
    (call.op = "generate_payloads" /\ outcome = "returned") =>
        /\ \A k \in 1..Len(payloads) : payloads[k].value = 0
        /\ \A k \in 1..Len(payloads) : \A i \in 1..Hops :
              (/\ payloads[k].selector \in SwapSelectors
               /\ payloads[k].target = PoolOfHop(i).address) =>
                  DestinationOf(payloads[k]) =
                      IF i < Hops /\ IsV2Pool(PoolOfHop(i + 1))
                      THEN PoolOfHop(i + 1).address
                      ELSE to_checksum_address(call.from_address)
        /\ \A i \in 1..Hops :
              (i > 1 \/ ~IsV2Pool(PoolOfHop(1))) =>
                  \E k \in 1..Len(payloads) :
                      /\ payloads[k].selector \in SwapSelectors
                      /\ payloads[k].target = PoolOfHop(i).address

\* a three-hop cycle whose first hop sends to the next constant-product pool and
\* whose later hops send to the caller, given in lower case
C2_Witness ==
    /\ call.op = "generate_payloads"
    /\ outcome = "returned"
    /\ swap_pools = <<3, 1, 4>>
    /\ call.from_address = "0xcaller"
    /\ Len(payloads) = 3
    /\ DestinationOf(payloads[1]) = "0xPool1"
    /\ DestinationOf(payloads[2]) = "0xCaller"
    /\ DestinationOf(payloads[3]) = "0xCaller"

(***************************************************************************)
(* The pre-calculation check as its callers see it.                        *)
(***************************************************************************)
\* calculate_with_pool refuses a process pool when a pool's liquidity map is sparse
Refused ==
    /\ call.op = "calculate_with_pool"
    /\ call.executor = "ProcessPoolExecutor"
    /\ \E i \in 1..Hops : IsV3Pool(PoolOfHop(i)) /\ PoolOfHop(i).sparse_liquidity_map

\* the finished call ran the pre-calculation check with the inputs in `call`
PreCheckRan ==
    \/ call.op \in {"pre_check", "calculate"}
    \/ call.op = "calculate_with_pool" /\ ~Refused

\* how the pre-calculation check of the finished call ended
PreCheckOutcome == IF outcome \in {"result", "future"} THEN "ok" ELSE outcome

Overridden(i) == PoolOfHop(i).address \in DOMAIN call.state_overrides

\* the viability of the override state of hop i, with the hop's own vector
OverrideViability(i) ==
    _pool_is_viable(PoolOfHop(i), call.state_overrides[PoolOfHop(i).address],
                    swap_vectors[i])

\* hop i's pool is NotViable, by its override state or by its cached flag
NotViableHop(i) ==
    \/ Overridden(i) /\ OverrideViability(i) = "False"
    \/ pool_viability[PoolOfHop(i).address] = FALSE

\* the override state of hop i is the inconsistent one: the viability check faults
FaultingOverride(i) == Overridden(i) /\ OverrideViability(i) = "ValueError"

\* C3 as stated: whenever a pool of the path is NotViable the pre-calculation
\* check fails with ArbitrageError, and the optimizer is neither run nor scheduled.
C3_NotViableIsArbitrageError ==
    (PreCheckRan /\ \E i \in 1..Hops : NotViableHop(i)) =>
        /\ outcome = "ArbitrageError"
        /\ ~optimizer_ran
        /\ ~scheduled

\* C3, amended: whenever a pool of the path is NotViable the pre-calculation
\* check fails before any rate is computed, with ArbitrageError unless an
\* overridden pool's inconsistent state (zero price with tick data) faults the
\* viability check first, which raises ValueError; calculate and
\* calculate_with_pool then neither run nor schedule the optimizer.
C3_NotViableFailsBeforeRate ==
    (call.op \in {"pre_check", "calculate", "calculate_with_pool"}
        /\ \E i \in 1..Hops : NotViableHop(i)) =>
        /\ ~optimizer_ran
        /\ ~scheduled
        /\ PreCheckRan =>
              /\ outcome \in {"ArbitrageError", "ValueError"}
              /\ outcome = "ValueError" =>
                    \E j \in 1..Hops :
                        /\ FaultingOverride(j)
                        /\ \A k \in 1..(j - 1) : ~NotViableHop(k)
              /\ (\A j \in 1..Hops : ~FaultingOverride(j)) => outcome = "ArbitrageError"

\* the scenario of the specification: the second, constant-product hop has
\* reserves (0, MaxReserve), the rate of the first hop alone is above 1, and
\* calculate fails with ArbitrageError without running the optimizer
C3_Witness ==
    /\ call.op = "calculate"
    /\ swap_pools = <<1, 2>>
    /\ call.state_overrides = NoOverrides
    /\ pool_state[1].reserves_token0 = 1
    /\ pool_state[1].reserves_token1 = MaxReserve
    /\ pool_state[2].reserves_token0 = 0
    /\ pool_state[2].reserves_token1 = MaxReserve
    /\ outcome = "ArbitrageError"
    /\ ~optimizer_ran

\* every pool passes the viability gate: no override state and no cached flag is
\* NotViable, and no override state faults the check
AllViable == \A i \in 1..Hops : ~NotViableHop(i) /\ ~FaultingOverride(i)

\* the state hop i is priced at: the override where given, else the pool's own
EffectiveState(i) ==
    IF Overridden(i) THEN call.state_overrides[PoolOfHop(i).address]
    ELSE pool_state[swap_pools[i]]

\* the (1 - fee) factor of hop i, as <<numerator, denominator>>
FeeFactor(i) ==
    LET pool == PoolOfHop(i)
        fee == IF swap_vectors[i].zero_for_one THEN pool.fee_token0 ELSE pool.fee_token1
    IN  IF IsV2Pool(pool)
        THEN <<fee[2] - fee[1], fee[2]>>
        ELSE <<V3_FEE_DENOMINATOR - pool.fee, V3_FEE_DENOMINATOR>>

\* the fee-free price of hop i, as <<numerator, denominator>>: reserve_out over
\* reserve_in, or sqrtPrice^2 over 2^192 (its reciprocal when the price increases)
HopPrice(i) ==
    LET s == EffectiveState(i)
        z == swap_vectors[i].zero_for_one
    IN  IF IsV2Pool(PoolOfHop(i))
        THEN IF z THEN <<s.reserves_token1, s.reserves_token0>>
             ELSE <<s.reserves_token0, s.reserves_token1>>
        ELSE IF z THEN <<s.sqrt_price_x96 * s.sqrt_price_x96, Q192>>
             ELSE <<Q192, s.sqrt_price_x96 * s.sqrt_price_x96>>

FeeNum == Product([i \in 1..Hops |-> FeeFactor(i)[1]])

FeeDen == Product([i \in 1..Hops |-> FeeFactor(i)[2]])

PriceNum == Product([i \in 1..Hops |-> HopPrice(i)[1]])

PriceDen == Product([i \in 1..Hops |-> HopPrice(i)[2]])

\* C4: when every pool is viable (and the product is defined) the pre-calculation
\* check fails with RateOfExchangeBelowMinimum if and only if the product over
\* the hops of price * (1 - fee) is strictly below min_rate; otherwise it passes,
\* also when the product equals min_rate.
C4_RateBelowMinimumIff ==
    (PreCheckRan /\ AllViable /\ PriceDen # 0) =>
        /\ PreCheckOutcome \in {"ok", "RateOfExchangeBelowMinimum"}
        /\ PreCheckOutcome = "RateOfExchangeBelowMinimum" <=>
              PriceNum * FeeNum * call.min_rate_of_exchange[2]
                  < call.min_rate_of_exchange[1] * PriceDen * FeeDen

\* a cycle whose rate is exactly the minimum passes
C4_Witness ==
    /\ call.op = "pre_check"
    /\ AllViable
    /\ PriceDen # 0
    /\ PriceNum * FeeNum * call.min_rate_of_exchange[2]
          = call.min_rate_of_exchange[1] * PriceDen * FeeDen
    /\ outcome = "ok"

\* C5 as stated: with min_rate 1 every cycle whose product of (1 - fee) factors
\* is below 1 is rejected, whatever the reserves.
C5_FeeLossAlwaysRejected ==
    (PreCheckRan /\ call.min_rate_of_exchange = <<1, 1>> /\ FeeNum < FeeDen) =>
        PreCheckOutcome # "ok"

\* C5, amended: with min_rate 1 a cycle whose product of (1 - fee) factors is
\* below 1 is rejected whenever the product of its fee-free prices is at most 1
\* (with RateOfExchangeBelowMinimum when every pool is viable).
C5_FeeLossRejectedAtParity ==
    (PreCheckRan /\ call.min_rate_of_exchange = <<1, 1>> /\ FeeNum < FeeDen
        /\ PriceDen # 0 /\ PriceNum <= PriceDen) =>
        /\ PreCheckOutcome # "ok"
        /\ AllViable => PreCheckOutcome = "RateOfExchangeBelowMinimum"

\* balanced pools of the largest reserves, a fee on one hop: rejected for the rate
C5_Witness ==
    /\ call.op = "pre_check"
    /\ call.min_rate_of_exchange = <<1, 1>>
    /\ call.state_overrides = NoOverrides
    /\ swap_pools = <<1, 2>>
    /\ \A id \in {1, 2} : /\ pool_state[id].reserves_token0 = MaxReserve
                          /\ pool_state[id].reserves_token1 = MaxReserve
    /\ FeeNum < FeeDen
    /\ PriceNum = PriceDen
    /\ outcome = "RateOfExchangeBelowMinimum"

(***************************************************************************)
(* The viability cache and the notification handler.                       *)
(***************************************************************************)
AddressOfHop(i) == PoolOfHop(i).address

\* the notification of the finished call came from a pool of the path and
\* carried a pool state of a recognised type
FromPathPool ==
    /\ call.op = "notify"
    /\ call.publisher.class \in {"AerodromeV2", "AerodromeV3", "UniswapV2", "UniswapV3"}
    /\ call.publisher.id \in PathIds
    /\ call.message.class = "PoolStateMessage"
    /\ call.message.state.kind \in
          {"AerodromeV2PoolState", "UniswapV2PoolState", "UniswapV3PoolState"}

\* the flags agree with the last notified (or initial) state of every pool for
\* which the viability check of that state yields a flag
FlagsFollowStates ==
    \A i \in 1..Hops :
        LET v == _pool_is_viable(PoolOfHop(i), pool_state[swap_pools[i]], swap_vectors[i])
        IN  v \in {"True", "False"} => pool_viability[AddressOfHop(i)] = (v = "True")

\* a flag changes only in a notification from its own pool
FlagsChangeByOwnPool ==
    \A i \in 1..Hops :
        pool_viability'[AddressOfHop(i)] # pool_viability[AddressOfHop(i)] =>
            /\ call'.op = "notify"
            /\ call'.publisher.id = swap_pools[i]

Unrelated(publisher, message) ==
    \/ publisher.class \notin {"AerodromeV2", "AerodromeV3", "UniswapV2", "UniswapV3"}
    \/ publisher.id \notin PathIds
    \/ message.class # "PoolStateMessage"
    \/ message.state.kind \notin
          {"AerodromeV2PoolState", "UniswapV2PoolState", "UniswapV3PoolState"}

ConstantProductViable(state, zero_for_one) ==
    /\ state.reserves_token0 # 0
    /\ state.reserves_token1 # 0
    /\ IF zero_for_one THEN state.reserves_token1 > 1 ELSE state.reserves_token0 > 1

\* C9: a constant-product pool is Viable for a swap vector if and only if both
\* reserves are nonzero and the reserve of the output token (reserve1 for
\* zero_for_one, reserve0 otherwise) is above 1: the cached flag of every such
\* pool says so of its state, and the pre-calculation check says so of an
\* override state.
C9_ConstantProductViability ==
    /\ \A i \in 1..Hops :
          IsV2Pool(PoolOfHop(i)) =>
              pool_viability[AddressOfHop(i)]
                  = ConstantProductViable(pool_state[swap_pools[i]],
                                          swap_vectors[i].zero_for_one)
    /\ (PreCheckRan /\ \A j \in 1..Hops : ~FaultingOverride(j)) =>
          /\ (\E i \in 1..Hops :
                 /\ IsV2Pool(PoolOfHop(i))
                 /\ Overridden(i)
                 /\ ~ConstantProductViable(call.state_overrides[AddressOfHop(i)],
                                           swap_vectors[i].zero_for_one))
                => outcome = "ArbitrageError"
          /\ (\A i \in 1..Hops :
                 /\ pool_viability[AddressOfHop(i)]
                 /\ Overridden(i) =>
                       /\ IsV2Pool(PoolOfHop(i))
                       /\ ConstantProductViable(call.state_overrides[AddressOfHop(i)],
                                                swap_vectors[i].zero_for_one))
                => outcome # "ArbitrageError"

\* the same reserves (MaxReserve, 1) in both pools: NotViable for the hop that
\* draws token1, Viable for the hop that draws token0
C9_Witness ==
    /\ swap_pools = <<1, 2>>
    /\ \A id \in {1, 2} : /\ pool_state[id].reserves_token0 = MaxReserve
                          /\ pool_state[id].reserves_token1 = 1
    /\ call.op = "notify"
    /\ pool_viability["0xPool1"] = FALSE
    /\ pool_viability["0xPool2"] = TRUE

\* the state is the inconsistent one for the pool: price zero with tick data,
\* and the liquidity map is not sparse
Inconsistent(pool, state) ==
    /\ IsV3Pool(pool)
    /\ ~pool.sparse_liquidity_map
    /\ state.tick_data # {}
    /\ state.sqrt_price_x96 = 0

\* the rule of the claim for a concentrated-liquidity state that is not the
\* inconsistent one
ConcentratedViable(pool, state, zero_for_one) ==
    IF pool.sparse_liquidity_map THEN TRUE
    ELSE IF state.tick_data = {} THEN FALSE
    ELSE IF zero_for_one
         THEN get_sqrt_ratio_at_tick(Min(state.tick_data)) < state.sqrt_price_x96
         ELSE get_sqrt_ratio_at_tick(Max(state.tick_data)) > state.sqrt_price_x96

Chainable(token, pools) ==
    \E t \in [0..Len(pools) -> Tokens] :
        /\ t[0] = token
        /\ \A i \in 1..Len(pools) :
              \/ t[i - 1] = Pool(pools[i]).token0 /\ t[i] = Pool(pools[i]).token1
              \/ t[i - 1] = Pool(pools[i]).token1 /\ t[i] = Pool(pools[i]).token0

\* C11: a constructed cycle has one swap vector per pool; hop 0 takes the cycle's
\* input token, each hop's (token_in, token_out) is its pool's token pair in one
\* of the two orders with zero_for_one true exactly when token_in is token0, and
\* each hop's output token is the next hop's input token.  Construction fails
\* with DegenbotValueError, leaving no cycle, when a pool holds neither the input
\* token (hop 0) nor the previous hop's output token, and only then.
C11_VectorsChain ==
    call.op = "__init__" =>
        /\ outcome = "DegenbotValueError" <=> ~Chainable(call.input_token, call.swap_pools)
        /\ outcome # "constructed" => swap_pools = <<>> /\ swap_vectors = <<>>
        /\ outcome = "constructed" =>
              /\ input_token = call.input_token
              /\ swap_pools = call.swap_pools
              /\ Len(swap_vectors) = Len(swap_pools)
              /\ Hops >= 1 => swap_vectors[1].token_in = input_token
              /\ \A i \in 1..Hops :
                    LET v == swap_vectors[i]
                        pool == PoolOfHop(i)
                    IN  /\ \/ v.token_in = pool.token0 /\ v.token_out = pool.token1
                           \/ v.token_in = pool.token1 /\ v.token_out = pool.token0
                        /\ v.zero_for_one <=> v.token_in = pool.token0
              /\ \A i \in 1..(Hops - 1) :
                    swap_vectors[i].token_out = swap_vectors[i + 1].token_in

\* the path A -> B -> C -> A over three pools, the last one crossed from token1
C11_Witness ==
    /\ call.op = "__init__"
    /\ outcome = "constructed"
    /\ input_token = "A"
    /\ swap_pools = <<1, 5, 6>>
    /\ swap_vectors[2].zero_for_one
    /\ ~swap_vectors[3].zero_for_one
    /\ swap_vectors[3].token_out = "A"

(***************************************************************************)
(* The optimization run.                                                   *)
(***************************************************************************)
\* a run of _calculate is in flight or finished, call.pool_states its states
Running == call # Idle /\ call.op \in {"calculate", "calculate_with_pool"}
              /\ call.pool_states # <<>>

\* what hop i's pool returns for the amount q in the states of the run
HopSwap(i, q) ==
    calculate_tokens_out_from_tokens_in(PoolOfHop(i), swap_vectors[i].token_in, q,
                                        call.pool_states[AddressOfHop(i)])

\* the result of hop i when q0 enters hop 1 and every hop's output enters the
\* next; a hop after a faulting hop has the same fault
RECURSIVE HopResult(_, _)
HopResult(i, q0) ==
    IF i = 1 THEN HopSwap(1, q0)
    ELSE LET before == HopResult(i - 1, q0)
         IN  IF before.raised # "none" THEN before ELSE HopSwap(i, before.amount)

\* C12: for every probed x the profit function feeds int(x) into hop 0 and each
\* hop's output into the next, and its value is the (negated, for the minimizer)
\* profit out_last - int(x); when a hop raises a liquidity error or an arithmetic
\* revert the output counts as 0, the value is that of -int(x), and the fault
\* does not leave the function.
C12_ProfitFunction ==
    (Running /\ call.probe # <<>>) =>
        LET p == call.probe[1]
            last == HopResult(Hops, p.x \div XResolution)
        IN  /\ p.raised = "none"
            /\ p.token_in_quantity = p.x \div XResolution
            /\ p.token_out_quantity = IF last.raised = "none" THEN last.amount ELSE 0
            /\ -p.fun = p.token_out_quantity - p.token_in_quantity
            /\ last.raised # "none" => -p.fun = -(p.x \div XResolution)

\* a probe between two integers whose second hop reverted in the price math
C12_Witness ==
    /\ Running
    /\ call.probe # <<>>
    /\ call.probe[1].x % XResolution # 0
    /\ call.probe[1].x \div XResolution > 1
    /\ HopResult(1, call.probe[1].x \div XResolution).raised = "none"
    /\ HopResult(Hops, call.probe[1].x \div XResolution).raised = "EVMRevertError"
    /\ call.probe[1].fun = call.probe[1].x \div XResolution

\* the run has returned a result
HasResult ==
    /\ Running
    /\ call.result # <<>>
    /\ call.result[1].outcome = "result"

\* the state of hop i's pool that the run used
StateOfHop(i) == call.pool_states[AddressOfHop(i)]

\* C13: the state_block of a result is the maximum block over the states of
\* the pools used (the override where given, else the pool's own state) when
\* every one has a block, and absent when one of them has none.
C13_StateBlockOfPoolsUsed ==
    HasResult =>
        call.result[1].result[1].state_block =
            IF \E i \in 1..Hops : StateOfHop(i).block = NoBlock THEN NoBlock
            ELSE Max({StateOfHop(i).block : i \in 1..Hops})

\* the amount entering hop i when q0 enters hop 1 and no hop faults
RECURSIVE HopInput(_, _)
HopInput(i, q0) == IF i = 1 THEN q0 ELSE HopSwap(i - 1, HopInput(i - 1, q0)).amount

\* C14: build_swap_amounts returns one record per hop in path order; hop 0's
\* input is the given quantity and each later hop's input is the output computed
\* for the hop before; a constant-product record has the input in slot 0 and the
\* output in slot 1 when zero_for_one (the reverse otherwise), the other slots 0;
\* a concentrated-liquidity record has the input as amount_specified, the hop's
\* direction, and the price limit MIN_SQRT_RATIO+1 when zero_for_one and
\* MAX_SQRT_RATIO-1 otherwise.
C14_SwapAmountRecords ==
    HasResult =>
        LET r == call.result[1].result[1]
            q0 == call.probe[1].x \div XResolution
        IN  /\ r.input_amount = q0
            /\ Len(r.swap_amounts) = Hops
            /\ \A i \in 1..Hops :
                  LET rec == r.swap_amounts[i]
                      in == HopInput(i, q0)
                      out == HopSwap(i, in).amount
                      z == swap_vectors[i].zero_for_one
                  IN  /\ rec.pool = AddressOfHop(i)
                      /\ IF IsV2Pool(PoolOfHop(i))
                         THEN /\ rec.class = "UniswapV2PoolSwapAmounts"
                              /\ rec.amounts_in = IF z THEN <<in, 0>> ELSE <<0, in>>
                              /\ rec.amounts_out = IF z THEN <<0, out>> ELSE <<out, 0>>
                         ELSE /\ rec.class = "UniswapV3PoolSwapAmounts"
                              /\ rec.amount_specified = in
                              /\ rec.zero_for_one = z
                              /\ rec.sqrt_price_limit_x96 =
                                    IF z THEN MIN_SQRT_RATIO + 1 ELSE MAX_SQRT_RATIO - 1

\* constant-product 0 -> 1, then concentrated 1 -> 0, the second hop fed with
\* an output that differs from the input of the first
C14_Witness ==
    /\ HasResult
    /\ swap_pools = <<2, 3>>
    /\ call.result[1].result[1].swap_amounts[1].amounts_in[1]
          # call.result[1].result[1].swap_amounts[1].amounts_out[2]
    /\ call.result[1].result[1].swap_amounts[2].amount_specified
          = call.result[1].result[1].swap_amounts[1].amounts_out[2]
    /\ call.result[1].result[1].swap_amounts[2].sqrt_price_limit_x96 = MAX_SQRT_RATIO - 1

\* the run has reached the end of the optimizer and replayed the chosen input
Replayed == Running /\ call.result # <<>>

\* hop i is the first hop of the replay of q0 that yields no positive output,
\* and it yields zero or a liquidity error
FirstHopWithoutOutput(i, q0) ==
    /\ \A k \in 1..(i - 1) : /\ HopSwap(k, HopInput(k, q0)).raised = "none"
                             /\ HopSwap(k, HopInput(k, q0)).amount > 0
    /\ \/ HopSwap(i, HopInput(i, q0)).raised = "LiquidityPoolError"
       \/ /\ HopSwap(i, HopInput(i, q0)).raised = "none"
          /\ HopSwap(i, HopInput(i, q0)).amount = 0

\* C15: build_swap_amounts, and with it calculate, fails with ArbitrageError and
\* returns no records and no result whenever a hop's computed output for the
\* chosen input is zero or the hop's pool reports a liquidity error; a returned
\* list of records never holds a hop without output.
C15_ZeroOutputIsArbitrageError ==
    Replayed =>
        LET q0 == call.probe[1].x \div XResolution
            end == call.result[1]
        IN  /\ (\E i \in 1..Hops : FirstHopWithoutOutput(i, q0)) =>
                  /\ end.outcome = "ArbitrageError"
                  /\ end.result = <<>>
                  /\ call.op = "calculate" => outcome = "ArbitrageError"
            /\ end.outcome = "result" =>
                  \A i \in 1..Hops :
                      /\ HopSwap(i, HopInput(i, q0)).raised = "none"
                      /\ HopSwap(i, HopInput(i, q0)).amount > 0
                      /\ IsV2Pool(PoolOfHop(i)) =>
                            end.result[1].swap_amounts[i].amounts_out # <<0, 0>>

\* calculate passed the pre-calculation check, the first hop has an output for
\* the chosen input and the second has none
C15_Witness ==
    /\ Replayed
    /\ call.op = "calculate"
    /\ HopSwap(1, call.probe[1].x \div XResolution).amount > 0
    /\ FirstHopWithoutOutput(2, call.probe[1].x \div XResolution)
    /\ HopSwap(2, HopInput(2, call.probe[1].x \div XResolution)).raised = "none"
    /\ outcome = "ArbitrageError"

(***************************************************************************)
(* Dispatch to an executor.                                                *)
(***************************************************************************)
\* the path has a concentrated-liquidity pool with a sparse liquidity map
SparsePath == \E i \in 1..Hops : IsV3Pool(PoolOfHop(i)) /\ PoolOfHop(i).sparse_liquidity_map

\* C16: calculate_with_pool with a process executor on a path with a sparse
\* concentrated-liquidity pool fails with DegenbotValueError whatever the
\* pre-calculation check would say, and submits nothing; a thread executor is
\* not refused: the call returns a future exactly when the pre-calculation check
\* passes; with either executor nothing is submitted, and the optimizer does not
\* run, when the pre-calculation check fails.
C16_ProcessPoolRefusedFirst ==
    (call.op = "calculate_with_pool") =>
        LET pre == _pre_calculation_check(call.min_rate_of_exchange,
                                          call.state_overrides, pool_viability, pool_state)
        IN  /\ (call.executor = "ProcessPoolExecutor" /\ SparsePath) =>
                  /\ outcome = "DegenbotValueError"
                  /\ ~scheduled
                  /\ ~optimizer_ran
            /\ (call.executor = "ThreadPoolExecutor" \/ ~SparsePath) =>
                  /\ outcome = IF pre = "ok" THEN "future" ELSE pre
                  /\ scheduled <=> pre = "ok"
            /\ pre # "ok" => ~scheduled /\ ~optimizer_ran

\* a process executor and a sparse pool on a path that the pre-calculation
\* check would reject for a NotViable pool
C16_Witness ==
    /\ call.op = "calculate_with_pool"
    /\ call.executor = "ProcessPoolExecutor"
    /\ SparsePath
    /\ _pre_calculation_check(call.min_rate_of_exchange, call.state_overrides,
                              pool_viability, pool_state) = "ArbitrageError"
    /\ outcome = "DegenbotValueError"
    /\ ~scheduled

(***************************************************************************)
(* The states of one run.                                                  *)
(***************************************************************************)
\* the step starts a run: _calculate is entered and takes its states
RunStarts ==
    /\ call = Idle \/ call.pool_states = <<>>
    /\ call' # Idle
    /\ call'.pool_states # <<>>

\* at its start the run takes, for every pool of the path, the override where
\* one was supplied and the pool's state of that moment otherwise
SnapshotTaken ==
    RunStarts =>
        \A i \in 1..Hops :
            call'.pool_states[AddressOfHop(i)] =
                IF AddressOfHop(i) \in DOMAIN call'.state_overrides
                THEN call'.state_overrides[AddressOfHop(i)]
                ELSE pool_state[swap_pools[i]]

\* while the run lasts its states stay what they were at its start
SnapshotKept ==
    (Running /\ call' # Idle) => call'.pool_states = call.pool_states

\* the last probe, and the replay when there is one, are computed from the
\* states of the run
SnapshotUsed ==
    /\ (Running /\ call.probe # <<>>) =>
          LET last == HopResult(Hops, call.probe[1].x \div XResolution)
          IN  call.probe[1].token_out_quantity
                  = IF last.raised = "none" THEN last.amount ELSE 0
    /\ HasResult =>
          \A i \in 1..Hops :
              LET rec == call.result[1].result[1].swap_amounts[i]
                  in == HopInput(i, call.result[1].result[1].input_amount)
              IN  IF IsV2Pool(PoolOfHop(i))
                  THEN rec.amounts_in[1] + rec.amounts_in[2] = in
                       /\ rec.amounts_out[1] + rec.amounts_out[2] = HopSwap(i, in).amount
                  ELSE rec.amount_specified = in

\* C17: within one run of the optimization every probe and the final replay use
\* the per-pool states taken once at the start of the run (the override where
\* supplied, otherwise the pool's state at that moment); a pool whose state is
\* replaced while the run is in flight does not change the states the run uses.
C17_OneSnapshotPerRun ==
    /\ []SnapshotUsed
    /\ [][SnapshotTaken]_vars
    /\ [][SnapshotKept]_vars

\* a result whose first hop was computed from a state the pool has replaced in
\* the meantime by one that gives another output
C17_Witness ==
    /\ HasResult
    /\ AddressOfHop(1) \notin DOMAIN call.state_overrides
    /\ pool_state[swap_pools[1]] # call.pool_states[AddressOfHop(1)]
    /\ LET q0 == call.result[1].result[1].input_amount
       IN  calculate_tokens_out_from_tokens_in(PoolOfHop(1), swap_vectors[1].token_in,
                                               q0, pool_state[swap_pools[1]])
              # HopSwap(1, q0)

(***************************************************************************)
(* BalancerV2Pool, balancer/pools.py, and its state, balancer/types.py.    *)
(* The fixed-point, scaling and weighted-math libraries it imports are not *)
(* part of the sources at hand; they follow the specification's "Pool Swap *)
(* Adapters" paragraph, with 10^18 scaled down to FEE_DENOMINATOR.         *)
(***************************************************************************)
MaxBalance == 3          \* token balances of a weighted pool: 1..MaxBalance
MaxQuantity == 3         \* token_in_quantity of a call: 1..MaxQuantity
MaxCalls == 2            \* calls made on one pool

FEE_DENOMINATOR == 100   \* 1 * 10**18

ONE == FEE_DENOMINATOR   \* the fixed-point unit of the libraries

mulDown(a, b) == (a * b) \div ONE

mulUp(a, b) == IF a * b = 0 THEN 0 ELSE ((a * b - 1) \div ONE) + 1

divDown(a, b) == (a * ONE) \div b

divUp(a, b) == IF a = 0 THEN 0 ELSE ((a * ONE - 1) \div b) + 1

complement(x) == IF x < ONE THEN ONE - x ELSE 0

\* the power, rounded up, for the exponents the weights of the model give
powUp(base, exponent) ==
    IF exponent = ONE THEN base
    ELSE IF exponent = 2 * ONE THEN mulUp(base, base)
    ELSE Min({r \in 0..ONE : r * r >= base * ONE})

_subtractSwapFeeAmount(amount, fee_percentage) == amount - mulUp(amount, fee_percentage)

_upscale(amount, scalingFactor) == mulDown(amount, scalingFactor)

\* the list after the call: every element scaled where it stands
_upscaleArray(amounts, scalingFactors) ==
    [i \in DOMAIN amounts |-> mulDown(amounts[i], scalingFactors[i])]

_downscaleDown(amount, scalingFactor) == divDown(amount, scalingFactor)

\* amountOut = balanceOut * (1 - (balanceIn / (balanceIn + amountIn))^(weightIn/weightOut))
_calcOutGivenIn(balanceIn, weightIn, balanceOut, weightOut, amountIn) ==
    LET base == divUp(balanceIn, balanceIn + amountIn)
        exponent == divDown(weightIn, weightOut)
        power == powUp(base, exponent)
    IN  mulDown(balanceOut, complement(power))

\* tuple.index on the pool's tokens
TokenIndex(tokens, token) == Min({i \in 1..Len(tokens) : tokens[i] = token})

BalancerTokens == <<"A", "B">>

\* the attributes __init__ sets besides the state (lines 38, 95-141)
BalancerPools ==
    {[class |-> "BalancerV2Pool", address |-> "0xVault1", tokens |-> BalancerTokens,
      scaling_factors |-> sf, fee |-> fee, weights |-> w] :
        sf \in {<<ONE, ONE>>, <<ONE, 2 * ONE>>},
        fee \in {FEE_DENOMINATOR \div 10, FEE_DENOMINATOR \div 2},
        w \in {<<1, 1>>, <<2, 1>>}}

\* balancer/types.py lines 8-10, with the block of AbstractPoolState
BalancerV2PoolState(address, block, balances) ==
    [kind |-> "BalancerV2PoolState", address |-> address, block |-> block,
     balances |-> balances]

BalancerBalances == [1..Len(BalancerTokens) -> 1..MaxBalance]

\* the output of lines 164-189 for a list of balances
WeightedAmountOut(self, balances, token_in, token_in_quantity, token_out) ==
    LET token_in_index == TokenIndex(self.tokens, token_in)
        token_out_index == TokenIndex(self.tokens, token_out)
        amount_new == _subtractSwapFeeAmount(token_in_quantity, self.fee)
        upscaled == _upscaleArray(balances, self.scaling_factors)
        amountOut == _calcOutGivenIn(upscaled[token_in_index],
                                     self.weights[token_in_index],
                                     upscaled[token_out_index],
                                     self.weights[token_out_index],
                                     _upscale(amount_new, self.scaling_factors[token_in_index]))
    IN  _downscaleDown(amountOut, self.scaling_factors[token_out_index])

\* a slip in line 175: the list of the state is scaled, not a copy of it
BalancerV2Pool_calculate_tokens_out_from_tokens_in_no_copy(self, state, token_in, token_in_quantity, token_out, override_state) ==
    [amount_out |-> WeightedAmountOut(self, state.balances, token_in,
                                      token_in_quantity, token_out),
     balances |-> _upscaleArray(state.balances, self.scaling_factors)]

\* lines 156-189.  The balances are self.balances, a copy of the list of the
\* pool's state (line 175); override_state is not read anywhere in the body.
\* The result carries the returned amount and the list the state holds after
\* the call.
BalancerV2Pool_calculate_tokens_out_from_tokens_in(self, state, token_in, token_in_quantity, token_out, override_state) ==
    [amount_out |-> WeightedAmountOut(self, state.balances, token_in,
                                      token_in_quantity, token_out),
     balances |-> state.balances]

\* the override states handed to the calls: None, or a state of the pool
BalancerOverrides ==
    {<<>>} \cup {<<BalancerV2PoolState("0xVault1", NoBlock, [i \in 1..Len(BalancerTokens) |-> b])>> :
                    b \in {1, MaxBalance}}

InitBalancer ==
    /\ input_token = "none"
    /\ swap_pools \in {<<pool>> : pool \in BalancerPools}
    /\ swap_vectors = <<>>
    /\ pool_state \in {<<BalancerV2PoolState("0xVault1", 1, balances)>> :
                          balances \in BalancerBalances}
    /\ pool_viability = <<>>
    /\ subscribers = {}
    /\ call = Idle
    /\ outcome = "none"
    /\ delivered = NoneDelivered
    /\ optimizer_ran = FALSE
    /\ scheduled = FALSE
    /\ payloads = <<>>

\* one call of calculate_tokens_out_from_tokens_in on the pool
BalancerCalculate ==
    /\ IF call = Idle THEN TRUE ELSE call.calls < MaxCalls
    /\ \E token_in \in Tokens, token_out \in Tokens :
       \E token_in_quantity \in 1..MaxQuantity :
       \E override_state \in BalancerOverrides :
          LET self == swap_pools[1]
              calls == IF call = Idle THEN 1 ELSE call.calls + 1
              inputs == [op |-> "calculate_tokens_out_from_tokens_in",
                         token_in |-> token_in,
                         token_in_quantity |-> token_in_quantity,
                         token_out |-> token_out,
                         override_state |-> override_state,
                         calls |-> calls]
          IN  IF \/ \A i \in 1..Len(self.tokens) : self.tokens[i] # token_in
                 \/ \A i \in 1..Len(self.tokens) : self.tokens[i] # token_out
              THEN /\ call' = inputs
                   /\ outcome' = "ValueError"
                   /\ UNCHANGED pool_state
              ELSE LET r == BalancerV2Pool_calculate_tokens_out_from_tokens_in(
                                self, pool_state[1], token_in, token_in_quantity,
                                token_out, override_state)
                   IN  /\ call' = inputs @@ [amount_out |-> r.amount_out]
                       /\ outcome' = "returned"
                       /\ pool_state' = <<[pool_state[1] EXCEPT !.balances = r.balances]>>
    /\ UNCHANGED <<input_token, swap_pools, swap_vectors, pool_viability, subscribers,
                   delivered, optimizer_ran, scheduled, payloads>>

NextBalancer == BalancerCalculate

SpecBalancer == InitBalancer /\ [][NextBalancer]_vars

\* the call returned an amount
BalancerReturned ==
    /\ call # Idle
    /\ call.op = "calculate_tokens_out_from_tokens_in"
    /\ outcome = "returned"

\* the balances the call is to compute from: those of the override state when
\* one is given, those of the pool's state otherwise
BalancesToUse ==
    IF call.override_state # <<>>
    THEN call.override_state[1].balances
    ELSE pool_state[1].balances

\* C18: with a state override the weighted pool's output is computed from the
\* balances of the override state, not from the pool's current state; with no
\* override it is computed from the pool's current state.
C18_OverrideBalancesUsed ==
    BalancerReturned =>
        call.amount_out = WeightedAmountOut(swap_pools[1], BalancesToUse, call.token_in,
                                            call.token_in_quantity, call.token_out)

\* C19: a call of the weighted pool's calculate_tokens_out_from_tokens_in leaves
\* the balances held by the pool's state element for element what they were, so
\* that they are the same after any number of calls.
C19_StateBalancesKept ==
    [][\A i \in DOMAIN pool_state[1].balances :
           pool_state'[1].balances[i] = pool_state[1].balances[i]]_vars

\* the last of several calls returned, on a pool one of whose scaling factors
\* changes the balance it scales
C19_Witness ==
    /\ BalancerReturned
    /\ call.calls = MaxCalls
    /\ _upscaleArray(pool_state[1].balances, swap_pools[1].scaling_factors)
          # pool_state[1].balances

(***************************************************************************)
(* The tick bitmap, uniswap/v3_libraries/tick_bitmap.py, as the            *)
(* specification's section 4.1 describes it and as the tests of            *)
(* tests/uniswap/v3/libraries/test_tick_bitmap.py use it.  A word is the   *)
(* set of its set bit positions; a bitmap maps the words it holds to them. *)
(***************************************************************************)
MaxWord == 1             \* words of a bitmap: -MaxWord..MaxWord
MaxFlips == 3            \* flips made on one bitmap

WordSize == 256          \* bits of a word

Words == (-MaxWord)..MaxWord

Spacings == {1, 2}

\* the ticks of the calls, in spacing units: the first, second and last bit
\* of every word
CompressedTicks == {w * WordSize + b : w \in Words, b \in {0, 1, WordSize - 1}}

FlipTicks == {c * s : c \in CompressedTicks, s \in Spacings}

\* word index = the tick shifted right by 8, bit position = its low 8 bits
position(tick) == <<tick \div WordSize, tick % WordSize>>

\* a slip: the bit is set, not toggled
flip_tick_set_bit(tick_bitmap, sparse, tick, tick_spacing) ==
    IF tick % tick_spacing # 0
    THEN [raised |-> "DegenbotValueError", tick_bitmap |-> tick_bitmap]
    ELSE LET word_pos == position(tick \div tick_spacing)[1]
             bit_pos == position(tick \div tick_spacing)[2]
         IN  IF word_pos \notin DOMAIN tick_bitmap
             THEN [raised |-> "LiquidityMapWordMissing", tick_bitmap |-> tick_bitmap]
             ELSE [raised |-> "none",
                   tick_bitmap |-> [tick_bitmap EXCEPT ![word_pos] = @ \cup {bit_pos}]]

\* flip(tick, spacing): toggles the bit of the tick in its word; the word of a
\* bitmap that does not hold it is missing
flip_tick(tick_bitmap, sparse, tick, tick_spacing) ==
    IF tick % tick_spacing # 0
    THEN [raised |-> "DegenbotValueError", tick_bitmap |-> tick_bitmap]
    ELSE LET word_pos == position(tick \div tick_spacing)[1]
             bit_pos == position(tick \div tick_spacing)[2]
         IN  IF word_pos \notin DOMAIN tick_bitmap
             THEN [raised |-> "LiquidityMapWordMissing", tick_bitmap |-> tick_bitmap]
             ELSE [raised |-> "none",
                   tick_bitmap |-> [tick_bitmap EXCEPT ![word_pos] =
                                       IF bit_pos \in @ THEN @ \ {bit_pos}
                                       ELSE @ \cup {bit_pos}]]

\* a slip: the search toward plus infinity leaves its start bit out
next_initialized_tick_within_one_word_legacy_skip_start(tick_bitmap, tick, tick_spacing, less_than_or_equal) ==
    LET compressed == tick \div tick_spacing
        start == IF less_than_or_equal THEN compressed ELSE compressed + 1
        word_pos == position(start)[1]
        bit_pos == position(start)[2]
        at_or_below == {b \in tick_bitmap[word_pos] : b <= bit_pos}
        at_or_above == {b \in tick_bitmap[word_pos] : b > bit_pos}
    IN  IF less_than_or_equal
        THEN IF at_or_below # {}
             THEN <<(compressed - (bit_pos - Max(at_or_below))) * tick_spacing, TRUE>>
             ELSE <<(compressed - bit_pos) * tick_spacing, FALSE>>
        ELSE IF at_or_above # {}
             THEN <<(start + (Min(at_or_above) - bit_pos)) * tick_spacing, TRUE>>
             ELSE <<(start + (WordSize - 1 - bit_pos)) * tick_spacing, FALSE>>

\* the search within one word of the bitmap.  Toward minus infinity it is
\* inclusive of the tick: the most significant set bit at or below the tick's,
\* else the first bit of the word.  Toward plus infinity it starts one spacing
\* unit past the tick: the least significant set bit at or above that start,
\* else the last bit of the start's word.
next_initialized_tick_within_one_word_legacy(tick_bitmap, tick, tick_spacing, less_than_or_equal) ==
    LET compressed == tick \div tick_spacing
        start == IF less_than_or_equal THEN compressed ELSE compressed + 1
        word_pos == position(start)[1]
        bit_pos == position(start)[2]
        at_or_below == {b \in tick_bitmap[word_pos] : b <= bit_pos}
        at_or_above == {b \in tick_bitmap[word_pos] : b >= bit_pos}
    IN  IF less_than_or_equal
        THEN IF at_or_below # {}
             THEN <<(compressed - (bit_pos - Max(at_or_below))) * tick_spacing, TRUE>>
             ELSE <<(compressed - bit_pos) * tick_spacing, FALSE>>
        ELSE IF at_or_above # {}
             THEN <<(start + (Min(at_or_above) - bit_pos)) * tick_spacing, TRUE>>
             ELSE <<(start + (WordSize - 1 - bit_pos)) * tick_spacing, FALSE>>

\* test_tick_bitmap.py lines 19-26
is_initialized(tick_bitmap, tick) ==
    LET next == next_initialized_tick_within_one_word_legacy(tick_bitmap, tick, 1, TRUE)
    IN  IF next[2] THEN next[1] = tick ELSE FALSE

\* empty_full_bitmap (lines 29-37) and the bitmaps of a sparse pool, which hold
\* the words loaded so far
InitialBitmaps ==
    {[sparse |-> FALSE, tick_bitmap |-> [w \in Words |-> {}]]}
        \cup {[sparse |-> TRUE, tick_bitmap |-> [w \in held |-> {}]] : held \in SUBSET Words}

InitBitmap ==
    /\ input_token = "none"
    /\ swap_pools = <<>>
    /\ swap_vectors = <<>>
    /\ pool_state \in InitialBitmaps
    /\ pool_viability = <<>>
    /\ subscribers = {}
    /\ call = Idle
    /\ outcome = "none"
    /\ delivered = NoneDelivered
    /\ optimizer_ran = FALSE
    /\ scheduled = FALSE
    /\ payloads = <<>>

\* one call of flip_tick on the bitmap
FlipTick ==
    /\ IF call = Idle THEN TRUE ELSE call.calls < MaxFlips
    /\ \E tick \in FlipTicks : \E tick_spacing \in Spacings :
          LET r == flip_tick(pool_state.tick_bitmap, pool_state.sparse, tick, tick_spacing)
          IN  /\ call' = [op |-> "flip_tick", tick |-> tick, tick_spacing |-> tick_spacing,
                          calls |-> IF call = Idle THEN 1 ELSE call.calls + 1]
              /\ outcome' = IF r.raised = "none" THEN "returned" ELSE r.raised
              /\ pool_state' = [pool_state EXCEPT !.tick_bitmap = r.tick_bitmap]
    /\ UNCHANGED <<input_token, swap_pools, swap_vectors, pool_viability, subscribers,
                   delivered, optimizer_ran, scheduled, payloads>>

NextBitmap == FlipTick

SpecBitmap == InitBitmap /\ [][NextBitmap]_vars

\* the ticks, in spacing units, whose status is looked at: those of the calls,
\* their neighbours and the ticks a word away, where the bitmap holds the word
StatusTicks(tick_bitmap) ==
    {u \in UNION {{c - WordSize, c - 1, c, c + 1, c + WordSize} : c \in CompressedTicks} :
        position(u)[1] \in DOMAIN tick_bitmap}

\* flipping the tick twice gives the bitmap back
FlipTwice(tick_bitmap, sparse, tick, tick_spacing) ==
    LET once == flip_tick(tick_bitmap, sparse, tick, tick_spacing)
        twice == flip_tick(once.tick_bitmap, sparse, tick, tick_spacing)
    IN  /\ once.raised = "none"
        /\ twice.raised = "none"
        /\ twice.tick_bitmap = tick_bitmap

\* one flip changes the status of the tick and of no other tick
FlipOnce(tick_bitmap, sparse, tick, tick_spacing) ==
    LET once == flip_tick(tick_bitmap, sparse, tick, tick_spacing).tick_bitmap
    IN  \A u \in StatusTicks(tick_bitmap) :
            (is_initialized(once, u) = is_initialized(tick_bitmap, u))
                <=> (u # tick \div tick_spacing)

\* C20: for every bitmap that holds the word of the tick and every tick that is
\* a multiple of the spacing, two flips of the tick give the bitmap back, and
\* one flip changes the initialized status of that tick only: its neighbours
\* and the ticks 256 positions away keep theirs.
C20_FlipIsInvolution ==
    \A tick \in FlipTicks : \A tick_spacing \in Spacings :
        (/\ tick % tick_spacing = 0
         /\ position(tick \div tick_spacing)[1] \in DOMAIN pool_state.tick_bitmap)
        => /\ FlipTwice(pool_state.tick_bitmap, pool_state.sparse, tick, tick_spacing)
           /\ FlipOnce(pool_state.tick_bitmap, pool_state.sparse, tick, tick_spacing)

\* after several flips tick 257 is initialized and tick 1, in the same place of
\* another word, is not, while a neighbour of tick 257 is
C20_Witness ==
    /\ call # Idle
    /\ call.op = "flip_tick"
    /\ call.calls = MaxFlips
    /\ outcome = "returned"
    /\ {0, 1} \subseteq DOMAIN pool_state.tick_bitmap
    /\ is_initialized(pool_state.tick_bitmap, 1 + WordSize)
    /\ is_initialized(pool_state.tick_bitmap, WordSize)
    /\ ~is_initialized(pool_state.tick_bitmap, 1)

(***************************************************************************)
(* The two searches for the next initialized tick, over the bitmap and     *)
(* over the tick-to-liquidity mapping, as section 4.1 of the specification *)
(* describes them and as test_next_initialized_tick_within_one_word sets   *)
(* them up: a bitmap that holds every word, and a mapping with an entry    *)
(* for every initialized tick.                                             *)
(***************************************************************************)
UniswapV3LiquidityAtTick == [liquidity_gross |-> 0, liquidity_net |-> 0]

NoTickData == [tick \in {} |-> UniswapV3LiquidityAtTick]

\* a slip: the search toward minus infinity leaves the tick itself out
next_initialized_tick_within_one_word_exclusive_down(tick_bitmap, tick_data, tick, tick_spacing, less_than_or_equal) ==
    LET compressed == tick \div tick_spacing
        start == IF less_than_or_equal THEN compressed ELSE compressed + 1
        word_pos == position(start)[1]
        lowest == word_pos * WordSize * tick_spacing
        highest == (word_pos * WordSize + WordSize - 1) * tick_spacing
        known_below == {k \in DOMAIN tick_data : lowest <= k /\ k < tick}
        known_above == {k \in DOMAIN tick_data : tick < k /\ k <= highest}
    IN  IF less_than_or_equal
        THEN IF known_below # {} THEN <<Max(known_below), TRUE>> ELSE <<lowest, FALSE>>
        ELSE IF known_above # {} THEN <<Min(known_above), TRUE>> ELSE <<highest, FALSE>>

\* the variant over the mapping: the nearest known tick of the start's word in
\* the direction of the search, else the boundary tick of that word
next_initialized_tick_within_one_word(tick_bitmap, tick_data, tick, tick_spacing, less_than_or_equal) ==
    LET compressed == tick \div tick_spacing
        start == IF less_than_or_equal THEN compressed ELSE compressed + 1
        word_pos == position(start)[1]
        lowest == word_pos * WordSize * tick_spacing
        highest == (word_pos * WordSize + WordSize - 1) * tick_spacing
        known_below == {k \in DOMAIN tick_data : lowest <= k /\ k <= tick}
        known_above == {k \in DOMAIN tick_data : tick < k /\ k <= highest}
    IN  IF less_than_or_equal
        THEN IF known_below # {} THEN <<Max(known_below), TRUE>> ELSE <<lowest, FALSE>>
        ELSE IF known_above # {} THEN <<Min(known_above), TRUE>> ELSE <<highest, FALSE>>

\* the word in which a search starts
StartWord(tick, tick_spacing, less_than_or_equal) ==
    position(IF less_than_or_equal THEN tick \div tick_spacing
             ELSE (tick \div tick_spacing) + 1)[1]

\* the ticks searched from: the ticks that can be initialized and the ticks
\* next to them, on and off the spacing
SearchTicks(tick_spacing) ==
    UNION {(c * tick_spacing - 1)..(c * tick_spacing + 1) : c \in CompressedTicks}

InitSearch ==
    /\ input_token = "none"
    /\ swap_pools = <<>>
    /\ swap_vectors = <<>>
    /\ pool_state \in {[tick_spacing |-> s, sparse |-> FALSE,
                        tick_bitmap |-> [w \in Words |-> {}],
                        tick_data |-> NoTickData] : s \in Spacings}
    /\ pool_viability = <<>>
    /\ subscribers = {}
    /\ call = Idle
    /\ outcome = "none"
    /\ delivered = NoneDelivered
    /\ optimizer_ran = FALSE
    /\ scheduled = FALSE
    /\ payloads = <<>>

\* a tick is initialized in both structures (test lines 130-131, 384-385)
InitializeTick ==
    /\ Cardinality(DOMAIN pool_state.tick_data) < MaxFlips
    /\ \E c \in CompressedTicks :
          LET tick == c * pool_state.tick_spacing
              r == flip_tick(pool_state.tick_bitmap, pool_state.sparse, tick,
                             pool_state.tick_spacing)
          IN  /\ tick \notin DOMAIN pool_state.tick_data
              /\ call' = [op |-> "flip_tick", tick |-> tick]
              /\ outcome' = "returned"
              /\ pool_state' = [pool_state EXCEPT
                                  !.tick_bitmap = r.tick_bitmap,
                                  !.tick_data = [k \in DOMAIN @ \cup {tick} |->
                                                    UniswapV3LiquidityAtTick]]
    /\ UNCHANGED <<input_token, swap_pools, swap_vectors, pool_viability, subscribers,
                   delivered, optimizer_ran, scheduled, payloads>>

\* one search, made with both variants
Search ==
    /\ \E tick \in SearchTicks(pool_state.tick_spacing) : \E less_than_or_equal \in BOOLEAN :
          /\ StartWord(tick, pool_state.tick_spacing, less_than_or_equal) \in Words
          /\ call' = [op |-> "next_initialized_tick_within_one_word",
                      tick |-> tick,
                      less_than_or_equal |-> less_than_or_equal,
                      legacy |-> next_initialized_tick_within_one_word_legacy(
                                     pool_state.tick_bitmap, tick,
                                     pool_state.tick_spacing, less_than_or_equal),
                      result |-> next_initialized_tick_within_one_word(
                                     pool_state.tick_bitmap, pool_state.tick_data, tick,
                                     pool_state.tick_spacing, less_than_or_equal)]
          /\ outcome' = "returned"
    /\ UNCHANGED <<input_token, swap_pools, swap_vectors, pool_state, pool_viability,
                   subscribers, delivered, optimizer_ran, scheduled, payloads>>

NextSearch == InitializeTick \/ Search

SpecSearch == InitSearch /\ [][NextSearch]_vars

\* the last operation was a search
Searched == call # Idle /\ call.op = "next_initialized_tick_within_one_word"

\* the initialized ticks a bitmap records, for a spacing
InitializedTicks(tick_bitmap, tick_spacing) ==
    UNION {{(w * WordSize + b) * tick_spacing : b \in tick_bitmap[w]} :
              w \in DOMAIN tick_bitmap}

\* the lowest and the highest tick of the word in which the search starts
LowestOfWord(word_pos, tick_spacing) == word_pos * WordSize * tick_spacing

HighestOfWord(word_pos, tick_spacing) == (word_pos * WordSize + WordSize - 1) * tick_spacing

\* what a search is to return: the nearest initialized tick of the start's word
\* in its direction, else the boundary tick of that word
NearestInWord(tick_bitmap, tick, tick_spacing, less_than_or_equal) ==
    LET word_pos == StartWord(tick, tick_spacing, less_than_or_equal)
        lowest == LowestOfWord(word_pos, tick_spacing)
        highest == HighestOfWord(word_pos, tick_spacing)
        initialized == {k \in InitializedTicks(tick_bitmap, tick_spacing) :
                           lowest <= k /\ k <= highest}
        below == {k \in initialized : k <= tick}
        above == {k \in initialized : k > tick}
    IN  IF less_than_or_equal
        THEN IF below # {} THEN <<Max(below), TRUE>> ELSE <<lowest, FALSE>>
        ELSE IF above # {} THEN <<Min(above), TRUE>> ELSE <<highest, FALSE>>

\* C21: the search over the bitmap never returns a tick outside the word in
\* which it starts.  Toward lower ticks it includes the tick itself and returns
\* the nearest initialized tick at or below it in that word with found, else
\* the word's lowest tick without; toward higher ticks it starts one spacing
\* unit past the tick and returns the nearest initialized tick above it in that
\* word with found, else that word's highest tick without.
C21_SearchStaysInWord ==
    Searched =>
        LET tick_spacing == pool_state.tick_spacing
            word_pos == StartWord(call.tick, tick_spacing, call.less_than_or_equal)
        IN  /\ LowestOfWord(word_pos, tick_spacing) <= call.legacy[1]
            /\ call.legacy[1] <= HighestOfWord(word_pos, tick_spacing)
            /\ call.legacy = NearestInWord(pool_state.tick_bitmap, call.tick, tick_spacing,
                                           call.less_than_or_equal)

\* a search toward higher ticks from an initialized tick that is the last of
\* its word finds the first tick of the next word
C21_Witness ==
    /\ Searched
    /\ ~call.less_than_or_equal
    /\ call.tick \in DOMAIN pool_state.tick_data
    /\ StartWord(call.tick, pool_state.tick_spacing, FALSE)
          # StartWord(call.tick, pool_state.tick_spacing, TRUE)
    /\ call.legacy[2]
    /\ call.legacy[1] > call.tick

\* the two structures record the same initialized ticks
SameInitializedTicks ==
    InitializedTicks(pool_state.tick_bitmap, pool_state.tick_spacing)
        = DOMAIN pool_state.tick_data

\* C22: for every tick and direction, and a bitmap and a tick-to-liquidity
\* mapping that record the same initialized ticks, the search over the bitmap
\* and the search over the mapping return the same (tick, found) pair, also
\* after a further tick was initialized in both.
C22_VariantsAgree ==
    /\ Searched => call.legacy = call.result
    /\ SameInitializedTicks =>
          \A tick \in SearchTicks(pool_state.tick_spacing) : \A less_than_or_equal \in BOOLEAN :
              StartWord(tick, pool_state.tick_spacing, less_than_or_equal) \in Words
              => next_initialized_tick_within_one_word_legacy(
                     pool_state.tick_bitmap, tick, pool_state.tick_spacing, less_than_or_equal)
                 = next_initialized_tick_within_one_word(
                       pool_state.tick_bitmap, pool_state.tick_data, tick,
                       pool_state.tick_spacing, less_than_or_equal)

\* after several ticks were initialized in both structures, a search toward
\* lower ticks from an initialized tick finds that tick with both variants
C22_Witness ==
    /\ Searched
    /\ SameInitializedTicks
    /\ Cardinality(DOMAIN pool_state.tick_data) = MaxFlips
    /\ call.less_than_or_equal
    /\ call.result = <<call.tick, TRUE>>
    /\ call.legacy = <<call.tick, TRUE>>

(***************************************************************************)
(* Square-root-price math, uniswap/v3_libraries/sqrt_price_math.py, as     *)
(* section 4.2 of the specification describes it and as the tests of       *)
(* tests/uniswap/v3/libraries/test_sqrt_price_math.py use it.  The widths  *)
(* of the reference machine are divided by 32: 256, 160, 128 and 96 bits   *)
(* become 8, 5, 4 and 3 bits.                                              *)
(***************************************************************************)
MAX_UINT256 == 255       \* 2^256 - 1
MAX_UINT160 == 31        \* 2^160 - 1, the domain of a square-root price
MAX_UINT128 == 15        \* 2^128 - 1, the domain of the liquidity
FixedPoint96_Q96 == 8    \* 2^96 where the price math shifts by 96 bits

\* floor(a * b / denominator); the caller sees to a nonzero denominator
mulDiv(a, b, denominator) == (a * b) \div denominator

mulDivRoundingUp(a, b, denominator) ==
    mulDiv(a, b, denominator) + (IF (a * b) % denominator > 0 THEN 1 ELSE 0)

divRoundingUp(x, y) == (x \div y) + (IF x % y > 0 THEN 1 ELSE 0)

\* a slip: the new price is rounded down
get_next_sqrt_price_from_amount0_rounding_down(sqrt_price_x96, liquidity, amount, add) ==
    LET numerator1 == liquidity * FixedPoint96_Q96
        product == amount * sqrt_price_x96
    IN  IF amount = 0 THEN Returns(sqrt_price_x96)
        ELSE IF add
        THEN IF product <= MAX_UINT256 /\ numerator1 + product <= MAX_UINT256
             THEN Returns(mulDiv(numerator1, sqrt_price_x96, numerator1 + product))
             ELSE IF (numerator1 \div sqrt_price_x96) + amount > MAX_UINT256
             THEN Raises("EVMRevertError")
             ELSE Returns(numerator1 \div ((numerator1 \div sqrt_price_x96) + amount))
        ELSE IF product > MAX_UINT256 \/ numerator1 <= product
             THEN Raises("EVMRevertError")
             ELSE LET next == mulDiv(numerator1, sqrt_price_x96, numerator1 - product)
                  IN  IF next > MAX_UINT160 THEN Raises("EVMRevertError") ELSE Returns(next)

\* the price after adding or removing an amount of token0, rounded up:
\* liquidity * price / (liquidity +- amount * price) in the Q96 domain
get_next_sqrt_price_from_amount0_rounding_up(sqrt_price_x96, liquidity, amount, add) ==
    LET numerator1 == liquidity * FixedPoint96_Q96
        product == amount * sqrt_price_x96
    IN  IF amount = 0 THEN Returns(sqrt_price_x96)
        ELSE IF add
        THEN IF product <= MAX_UINT256 /\ numerator1 + product <= MAX_UINT256
             THEN Returns(mulDivRoundingUp(numerator1, sqrt_price_x96, numerator1 + product))
             ELSE IF (numerator1 \div sqrt_price_x96) + amount > MAX_UINT256
             THEN Raises("EVMRevertError")
             ELSE Returns(divRoundingUp(numerator1, (numerator1 \div sqrt_price_x96) + amount))
        ELSE IF product > MAX_UINT256 \/ numerator1 <= product
             THEN Raises("EVMRevertError")
             ELSE LET next == mulDivRoundingUp(numerator1, sqrt_price_x96, numerator1 - product)
                  IN  IF next > MAX_UINT160 THEN Raises("EVMRevertError") ELSE Returns(next)

\* the price after adding or removing an amount of token1, rounded down:
\* price +- amount / liquidity in the Q96 domain
get_next_sqrt_price_from_amount1_rounding_down(sqrt_price_x96, liquidity, amount, add) ==
    IF add
    THEN LET quotient == mulDiv(amount, FixedPoint96_Q96, liquidity)
         IN  IF quotient > MAX_UINT256 \/ sqrt_price_x96 + quotient > MAX_UINT160
             THEN Raises("EVMRevertError")
             ELSE Returns(sqrt_price_x96 + quotient)
    ELSE LET quotient == mulDivRoundingUp(amount, FixedPoint96_Q96, liquidity)
         IN  IF quotient > MAX_UINT256 \/ sqrt_price_x96 <= quotient
             THEN Raises("EVMRevertError")
             ELSE Returns(sqrt_price_x96 - quotient)

\* a slip: the liquidity is not looked at
get_next_sqrt_price_from_input_any_liquidity(sqrt_price_x96, liquidity, amount_in, zero_for_one) ==
    IF sqrt_price_x96 = 0 THEN Raises("EVMRevertError")
    ELSE IF liquidity = 0 THEN Returns(sqrt_price_x96)
    ELSE IF zero_for_one
    THEN get_next_sqrt_price_from_amount0_rounding_up(sqrt_price_x96, liquidity, amount_in, TRUE)
    ELSE get_next_sqrt_price_from_amount1_rounding_down(sqrt_price_x96, liquidity, amount_in, TRUE)

get_next_sqrt_price_from_input(sqrt_price_x96, liquidity, amount_in, zero_for_one) ==
    IF sqrt_price_x96 = 0 \/ liquidity = 0 THEN Raises("EVMRevertError")
    ELSE IF zero_for_one
    THEN get_next_sqrt_price_from_amount0_rounding_up(sqrt_price_x96, liquidity, amount_in, TRUE)
    ELSE get_next_sqrt_price_from_amount1_rounding_down(sqrt_price_x96, liquidity, amount_in, TRUE)

get_next_sqrt_price_from_output(sqrt_price_x96, liquidity, amount_out, zero_for_one) ==
    IF sqrt_price_x96 = 0 \/ liquidity = 0 THEN Raises("EVMRevertError")
    ELSE IF zero_for_one
    THEN get_next_sqrt_price_from_amount1_rounding_down(sqrt_price_x96, liquidity, amount_out, FALSE)
    ELSE get_next_sqrt_price_from_amount0_rounding_up(sqrt_price_x96, liquidity, amount_out, FALSE)

\* a slip: the two prices are not put in order
get_amount0_delta_unsorted(sqrt_ratio_a_x96, sqrt_ratio_b_x96, liquidity, round_up) ==
    LET numerator1 == liquidity * FixedPoint96_Q96
        numerator2 == IF sqrt_ratio_b_x96 > sqrt_ratio_a_x96
                      THEN sqrt_ratio_b_x96 - sqrt_ratio_a_x96 ELSE 0
    IN  IF sqrt_ratio_a_x96 = 0 \/ sqrt_ratio_b_x96 = 0 THEN Raises("EVMRevertError")
        ELSE IF round_up
        THEN Returns(divRoundingUp(mulDivRoundingUp(numerator1, numerator2, sqrt_ratio_b_x96),
                                   sqrt_ratio_a_x96))
        ELSE Returns(mulDiv(numerator1, numerator2, sqrt_ratio_b_x96) \div sqrt_ratio_a_x96)

\* the token0 between two prices: liquidity * (b - a) / (a * b), a <= b
get_amount0_delta(sqrt_ratio_a_x96, sqrt_ratio_b_x96, liquidity, round_up) ==
    LET lower == Min({sqrt_ratio_a_x96, sqrt_ratio_b_x96})
        upper == Max({sqrt_ratio_a_x96, sqrt_ratio_b_x96})
        numerator1 == liquidity * FixedPoint96_Q96
        numerator2 == upper - lower
    IN  IF lower = 0 THEN Raises("EVMRevertError")
        ELSE IF round_up
        THEN Returns(divRoundingUp(mulDivRoundingUp(numerator1, numerator2, upper), lower))
        ELSE Returns(mulDiv(numerator1, numerator2, upper) \div lower)

\* the token1 between two prices: liquidity * (b - a), a <= b
get_amount1_delta(sqrt_ratio_a_x96, sqrt_ratio_b_x96, liquidity, round_up) ==
    LET lower == Min({sqrt_ratio_a_x96, sqrt_ratio_b_x96})
        upper == Max({sqrt_ratio_a_x96, sqrt_ratio_b_x96})
    IN  IF round_up
        THEN Returns(mulDivRoundingUp(liquidity, upper - lower, FixedPoint96_Q96))
        ELSE Returns(mulDiv(liquidity, upper - lower, FixedPoint96_Q96))

SqrtPrices == 0..MAX_UINT160

Liquidities == 0..MAX_UINT128

Amounts == 0..MAX_UINT256

InitSqrtPrice ==
    /\ input_token = "none"
    /\ swap_pools = <<>>
    /\ swap_vectors = <<>>
    /\ pool_state = <<>>
    /\ pool_viability = <<>>
    /\ subscribers = {}
    /\ call = Idle
    /\ outcome = "none"
    /\ delivered = NoneDelivered
    /\ optimizer_ran = FALSE
    /\ scheduled = FALSE
    /\ payloads = <<>>

\* one call of get_next_sqrt_price_from_input or get_next_sqrt_price_from_output
NextSqrtPrice ==
    /\ call = Idle
    /\ \E op \in {"get_next_sqrt_price_from_input", "get_next_sqrt_price_from_output"} :
       \E sqrt_price_x96 \in SqrtPrices : \E liquidity \in Liquidities :
       \E amount \in Amounts : \E zero_for_one \in BOOLEAN :
          LET r == IF op = "get_next_sqrt_price_from_input"
                   THEN get_next_sqrt_price_from_input(sqrt_price_x96, liquidity,
                                                       amount, zero_for_one)
                   ELSE get_next_sqrt_price_from_output(sqrt_price_x96, liquidity,
                                                        amount, zero_for_one)
          IN  /\ call' = [op |-> op, sqrt_price_x96 |-> sqrt_price_x96,
                          liquidity |-> liquidity, amount |-> amount,
                          zero_for_one |-> zero_for_one, result |-> r]
              /\ outcome' = IF r.raised = "none" THEN "returned" ELSE r.raised
    /\ UNCHANGED <<input_token, swap_pools, swap_vectors, pool_state, pool_viability,
                   subscribers, delivered, optimizer_ran, scheduled, payloads>>

\* one call of get_amount0_delta or get_amount1_delta
AmountDelta ==
    /\ call = Idle
    /\ \E op \in {"get_amount0_delta", "get_amount1_delta"} :
       \E sqrt_ratio_a_x96 \in SqrtPrices : \E sqrt_ratio_b_x96 \in SqrtPrices :
       \E liquidity \in Liquidities : \E round_up \in BOOLEAN :
          LET r == IF op = "get_amount0_delta"
                   THEN get_amount0_delta(sqrt_ratio_a_x96, sqrt_ratio_b_x96,
                                          liquidity, round_up)
                   ELSE get_amount1_delta(sqrt_ratio_a_x96, sqrt_ratio_b_x96,
                                          liquidity, round_up)
          IN  /\ call' = [op |-> op, sqrt_ratio_a_x96 |-> sqrt_ratio_a_x96,
                          sqrt_ratio_b_x96 |-> sqrt_ratio_b_x96,
                          liquidity |-> liquidity, round_up |-> round_up, result |-> r]
              /\ outcome' = IF r.raised = "none" THEN "returned" ELSE r.raised
    /\ UNCHANGED <<input_token, swap_pools, swap_vectors, pool_state, pool_viability,
                   subscribers, delivered, optimizer_ran, scheduled, payloads>>

NextSqrtPriceMath == NextSqrtPrice \/ AmountDelta

SpecSqrtPrice == InitSqrtPrice /\ [][NextSqrtPriceMath]_vars

\* get_next_sqrt_price_from_input returned a price
PriceFromInputReturned ==
    /\ call # Idle
    /\ call.op = "get_next_sqrt_price_from_input"
    /\ call.result.raised = "none"

\* the rounded-up token delta between the price of the call and the price it
\* returned: of token0 when zero_for_one, of token1 otherwise
DeltaOfInput ==
    IF call.zero_for_one
    THEN get_amount0_delta(call.sqrt_price_x96, call.result.amount, call.liquidity, TRUE)
    ELSE get_amount1_delta(call.sqrt_price_x96, call.result.amount, call.liquidity, TRUE)

\* C23 as stated: the rounded-up delta between the price and the price returned
\* for an input reproduces the input to within one unit, and an input of 0
\* returns the price itself.
C23_RoundTripWithinOneUnit ==
    PriceFromInputReturned =>
        /\ DeltaOfInput.raised = "none"
        /\ DeltaOfInput.amount <= call.amount + 1
        /\ call.amount <= DeltaOfInput.amount + 1
        /\ call.amount = 0 => call.result.amount = call.sqrt_price_x96

\* C23: the rounded-up delta between the price and the price returned for an
\* input never exceeds the input (the price moves by no more than the input
\* pays for), and an input of 0 returns the price itself in both directions.
C23_DeltaWithinInput ==
    PriceFromInputReturned =>
        /\ DeltaOfInput.raised = "none"
        /\ DeltaOfInput.amount <= call.amount
        /\ call.amount = 0 => call.result.amount = call.sqrt_price_x96

\* an input that moved the price, with a delta smaller than the input by more
\* than one unit
C23_Witness ==
    /\ PriceFromInputReturned
    /\ call.result.amount # call.sqrt_price_x96
    /\ DeltaOfInput.amount > 0
    /\ DeltaOfInput.amount + 1 < call.amount

\* the call was of one of the two next-price functions
NextPriceCalled ==
    /\ call # Idle
    /\ call.op \in {"get_next_sqrt_price_from_input", "get_next_sqrt_price_from_output"}

\* the output asked for is at least what the liquidity holds at the price:
\* liquidity * price / 2^96 of token1, liquidity * 2^96 / price of token0
OutputNotSupplied ==
    IF call.zero_for_one
    THEN call.amount * FixedPoint96_Q96 >= call.liquidity * call.sqrt_price_x96
    ELSE call.amount * call.sqrt_price_x96 >= call.liquidity * FixedPoint96_Q96

\* C24: both next-price functions fault when the price is zero or the liquidity
\* is zero; from_input faults when a token1 input would take the price past the
\* 160-bit domain; from_output faults when the output asked for is equal to or
\* greater than what the liquidity can supply at the price; a token0 input
\* never takes the price below 1.
C24_NextPriceFaults ==
    NextPriceCalled =>
        /\ (call.sqrt_price_x96 = 0 \/ call.liquidity = 0)
              => call.result.raised = "EVMRevertError"
        /\ (/\ call.op = "get_next_sqrt_price_from_input"
            /\ ~call.zero_for_one
            /\ call.liquidity > 0
            /\ call.sqrt_price_x96
                  + ((call.amount * FixedPoint96_Q96) \div call.liquidity) > MAX_UINT160)
              => call.result.raised = "EVMRevertError"
        /\ (call.op = "get_next_sqrt_price_from_output" /\ OutputNotSupplied)
              => call.result.raised = "EVMRevertError"
        /\ (/\ call.op = "get_next_sqrt_price_from_input"
            /\ call.zero_for_one
            /\ call.result.raised = "none")
              => call.result.amount >= 1

\* a pool with a price and liquidity is asked for exactly the token0 it holds,
\* and the call faults
C24_Witness ==
    /\ NextPriceCalled
    /\ call.op = "get_next_sqrt_price_from_output"
    /\ ~call.zero_for_one
    /\ call.sqrt_price_x96 > 0
    /\ call.liquidity > 0
    /\ call.amount * call.sqrt_price_x96 = call.liquidity * FixedPoint96_Q96
    /\ call.result.raised = "EVMRevertError"

\* one of the two delta functions was called
DeltaCalled ==
    /\ call # Idle
    /\ call.op \in {"get_amount0_delta", "get_amount1_delta"}

\* the function of the call, on other arguments
DeltaOf(sqrt_ratio_a_x96, sqrt_ratio_b_x96, liquidity, round_up) ==
    IF call.op = "get_amount0_delta"
    THEN get_amount0_delta(sqrt_ratio_a_x96, sqrt_ratio_b_x96, liquidity, round_up)
    ELSE get_amount1_delta(sqrt_ratio_a_x96, sqrt_ratio_b_x96, liquidity, round_up)

\* the result is the same with the prices exchanged, and rounding up gives the
\* result of rounding down or one more
SymmetricAndRounded ==
    /\ call.result = DeltaOf(call.sqrt_ratio_b_x96, call.sqrt_ratio_a_x96,
                             call.liquidity, call.round_up)
    /\ LET up == DeltaOf(call.sqrt_ratio_a_x96, call.sqrt_ratio_b_x96, call.liquidity, TRUE)
           down == DeltaOf(call.sqrt_ratio_a_x96, call.sqrt_ratio_b_x96, call.liquidity, FALSE)
       IN  /\ up.raised = down.raised
           /\ up.raised = "none" => (down.amount <= up.amount /\ up.amount <= down.amount + 1)

\* C25 as stated: both delta functions give the same result with the prices
\* exchanged, return 0 when the liquidity is 0 or the prices are equal, and
\* rounded up give at least the rounded-down result and at most one more.
C25_DeltaSymmetricZeroRounded ==
    DeltaCalled =>
        /\ SymmetricAndRounded
        /\ (call.liquidity = 0 \/ call.sqrt_ratio_a_x96 = call.sqrt_ratio_b_x96)
              => call.result = Returns(0)

\* C25: both delta functions give the same result with the prices exchanged and,
\* rounded up, at least the rounded-down result and at most one more;
\* amount1_delta returns 0 when the liquidity is 0 or the prices are equal, and
\* amount0_delta does so when neither price is zero, and faults when one is.
C25_DeltaSymmetricZeroUnlessPriceZero ==
    DeltaCalled =>
        /\ SymmetricAndRounded
        /\ (call.liquidity = 0 \/ call.sqrt_ratio_a_x96 = call.sqrt_ratio_b_x96)
              => IF /\ call.op = "get_amount0_delta"
                    /\ (call.sqrt_ratio_a_x96 = 0 \/ call.sqrt_ratio_b_x96 = 0)
                 THEN call.result.raised = "EVMRevertError"
                 ELSE call.result = Returns(0)
        /\ (/\ call.op = "get_amount0_delta"
            /\ (call.sqrt_ratio_a_x96 = 0 \/ call.sqrt_ratio_b_x96 = 0))
              => call.result.raised = "EVMRevertError"

\* a delta of token0 from the higher to the lower price, where rounding up gives
\* one more than rounding down
C25_Witness ==
    /\ DeltaCalled
    /\ call.op = "get_amount0_delta"
    /\ call.sqrt_ratio_a_x96 > call.sqrt_ratio_b_x96
    /\ call.round_up
    /\ call.result.raised = "none"
    /\ call.result.amount
          = get_amount0_delta(call.sqrt_ratio_a_x96, call.sqrt_ratio_b_x96,
                              call.liquidity, FALSE).amount + 1

(***************************************************************************)
(* decode_v3_path, uniswap/v3_functions.py lines 11-37.  A byte string is  *)
(* a sequence of integers 0..255; a checksum address is the sequence of    *)
(* the 40 hexadecimal digits of its 20 bytes (the case of the letters,     *)
(* which carries the checksum, does not change the digits' values).        *)
(***************************************************************************)
MaxFees == 2             \* fees of an encoded path: 0..MaxFees

ADDRESS_BYTES == 20      \* the 20 of line 25
FEE_BYTES == 3           \* the 3 of line 26
BYTE == 256              \* the values of a byte

\* to_checksum_address on a chunk: two hexadecimal digits per byte
to_checksum_address_of_bytes(chunk) ==
    [i \in 1..(2 * Len(chunk)) |->
        IF i % 2 = 1 THEN chunk[(i + 1) \div 2] \div 16 ELSE chunk[i \div 2] % 16]

\* a slip in line 26: the fee is read with the least significant byte first
RECURSIVE int_from_bytes_little(_)
int_from_bytes_little(chunk) ==
    IF chunk = <<>> THEN 0
    ELSE Head(chunk) + BYTE * int_from_bytes_little(Tail(chunk))

\* int.from_bytes(chunk), big-endian by default
RECURSIVE int_from_bytes(_)
int_from_bytes(chunk) ==
    IF chunk = <<>> THEN 0
    ELSE int_from_bytes(SubSeq(chunk, 1, Len(chunk) - 1)) * BYTE + chunk[Len(chunk)]

\* path[path_pos : path_pos + byte_length], with Python's clipping of a slice
Slice(path, path_pos, byte_length) ==
    SubSeq(path, path_pos + 1, Min({path_pos + byte_length, Len(path)}))

AddressElement(hex) == [is_address |-> TRUE, hex |-> hex, fee |-> 0]

FeeElement(fee) == [is_address |-> FALSE, hex |-> <<>>, fee |-> fee]

\* the loop of lines 23-35; to_checksum_address rejects a chunk that is not of
\* 20 bytes
RECURSIVE DecodeLoop(_, _, _, _)
DecodeLoop(path, path_pos, decoded_path, address_turn) ==
    LET byte_length == IF address_turn THEN ADDRESS_BYTES ELSE FEE_BYTES
        chunk == Slice(path, path_pos, byte_length)
    IN  IF address_turn /\ Len(chunk) # ADDRESS_BYTES
        THEN [raised |-> "ValueError", decoded_path |-> decoded_path]
        ELSE LET element == IF address_turn
                            THEN AddressElement(to_checksum_address_of_bytes(chunk))
                            ELSE FeeElement(int_from_bytes(chunk))
             IN  IF path_pos + byte_length = Len(path)
                 THEN [raised |-> "none", decoded_path |-> Append(decoded_path, element)]
                 ELSE DecodeLoop(path, path_pos + byte_length,
                                 Append(decoded_path, element), ~address_turn)

decode_v3_path(path) == DecodeLoop(path, 0, <<>>, TRUE)

\* the addresses and fees the paths are made of
EncodedAddresses ==
    {[i \in 1..ADDRESS_BYTES |-> 0], [i \in 1..ADDRESS_BYTES |-> BYTE - 1],
     [i \in 1..ADDRESS_BYTES |-> 16 * i + (i % 16)]}

PathFees == {<<0, 0, 0>>, <<0, 1, 244>>, <<0, 11, 184>>, <<255, 255, 255>>}

\* the encodings of k + 1 addresses separated by k fees
RECURSIVE EncodedPaths(_)
EncodedPaths(k) ==
    IF k = 0 THEN EncodedAddresses
    ELSE {p \o f \o a : p \in EncodedPaths(k - 1), f \in PathFees, a \in EncodedAddresses}

\* the well-formed paths, and those paths cut short by one byte
DecoderInputs ==
    LET whole == UNION {EncodedPaths(k) : k \in 0..MaxFees}
    IN  whole \cup {SubSeq(p, 1, Len(p) - 1) : p \in whole}

InitDecode ==
    /\ input_token = "none"
    /\ swap_pools = <<>>
    /\ swap_vectors = <<>>
    /\ pool_state = <<>>
    /\ pool_viability = <<>>
    /\ subscribers = {}
    /\ call = Idle
    /\ outcome = "none"
    /\ delivered = NoneDelivered
    /\ optimizer_ran = FALSE
    /\ scheduled = FALSE
    /\ payloads = <<>>

\* one call of decode_v3_path
DecodePath ==
    /\ call = Idle
    /\ \E path \in DecoderInputs :
          LET r == decode_v3_path(path)
          IN  /\ call' = [op |-> "decode_v3_path", path |-> path,
                          decoded_path |-> r.decoded_path]
              /\ outcome' = IF r.raised = "none" THEN "returned" ELSE r.raised
    /\ UNCHANGED <<input_token, swap_pools, swap_vectors, pool_state, pool_viability,
                   subscribers, delivered, optimizer_ran, scheduled, payloads>>

NextDecode == DecodePath

SpecDecode == InitDecode /\ [][NextDecode]_vars

\* the number of fees of a well-formed path of that length, else -1
FeesOfLength(n) ==
    IF n >= ADDRESS_BYTES /\ (n - ADDRESS_BYTES) % (ADDRESS_BYTES + FEE_BYTES) = 0
    THEN (n - ADDRESS_BYTES) \div (ADDRESS_BYTES + FEE_BYTES)
    ELSE -1

\* the bytes an element of a decoded path stands for
RECURSIVE BytesOfHex(_)
BytesOfHex(hex) ==
    IF hex = <<>> THEN <<>>
    ELSE <<16 * hex[1] + hex[2]>> \o BytesOfHex(SubSeq(hex, 3, Len(hex)))

BytesOfFee(fee) == <<fee \div (BYTE * BYTE), (fee \div BYTE) % BYTE, fee % BYTE>>

RECURSIVE Reencoded(_)
Reencoded(decoded_path) ==
    IF decoded_path = <<>> THEN <<>>
    ELSE (IF Head(decoded_path).is_address THEN BytesOfHex(Head(decoded_path).hex)
          ELSE BytesOfFee(Head(decoded_path).fee)) \o Reencoded(Tail(decoded_path))

\* C26: for a byte string of k + 1 addresses of 20 bytes separated by k fees of
\* 3 bytes, decode_v3_path returns 2k + 1 elements, addresses and fees in turn
\* from an address to an address, each fee the big-endian unsigned value of its
\* 3 bytes, and the elements put together again are the byte string.
C26_DecodeV3Path ==
    (/\ call # Idle
     /\ call.op = "decode_v3_path"
     /\ FeesOfLength(Len(call.path)) >= 0)
    => /\ outcome = "returned"
       /\ Len(call.decoded_path) = 2 * FeesOfLength(Len(call.path)) + 1
       /\ \A i \in 1..Len(call.decoded_path) :
             LET start == ((i - 1) \div 2) * (ADDRESS_BYTES + FEE_BYTES)
             IN  IF i % 2 = 1
                 THEN /\ call.decoded_path[i].is_address
                      /\ Len(call.decoded_path[i].hex) = 2 * ADDRESS_BYTES
                 ELSE /\ ~call.decoded_path[i].is_address
                      /\ call.decoded_path[i].fee
                            = call.path[start + ADDRESS_BYTES + 1] * BYTE * BYTE
                                + call.path[start + ADDRESS_BYTES + 2] * BYTE
                                + call.path[start + ADDRESS_BYTES + 3]
       /\ Reencoded(call.decoded_path) = call.path

\* a path of several fees, one of which reads differently from its two ends,
\* was decoded
C26_Witness ==
    /\ call # Idle
    /\ call.op = "decode_v3_path"
    /\ outcome = "returned"
    /\ FeesOfLength(Len(call.path)) = MaxFees
    /\ call.decoded_path[2].fee = 500
    /\ call.decoded_path[4].fee = 3000

\* whether hop i's pool is NotViable when an overridden pool is judged by its
\* override state alone and the cached flag is read for the other pools only
JudgedNotViable(i) ==
    IF Overridden(i)
    THEN OverrideViability(i) = "False"
    ELSE pool_viability[PoolOfHop(i).address] = FALSE

\* C27: in the pre-calculation check an overridden pool is judged from its
\* override state alone and the cached flag is read only for pools without an
\* override, so that a cycle whose overridden pools have viable override states
\* and whose other pools are cached viable passes the viability gate.
C27_OverrideJudgedAlone ==
    (/\ call # Idle
     /\ PreCheckRan
     /\ \A i \in 1..Hops : ~JudgedNotViable(i) /\ ~FaultingOverride(i))
    => outcome # "ArbitrageError"

\* C28: whenever every pool of the path passes the viability gate of the
\* pre-calculation check, the net rate is well defined: the check ends by
\* returning or by raising ArbitrageError or RateOfExchangeBelowMinimum, never
\* with a division by zero, also for a sparse concentrated-liquidity hop of
\* price zero.
C28_RateWellDefined ==
    (call # Idle /\ PreCheckRan /\ AllViable)
    => PreCheckOutcome \in {"ok", "ArbitrageError", "RateOfExchangeBelowMinimum"}

\* C29: every successfully constructed cycle is closed: the output token of its
\* last hop is its input token, so that the profit (final output minus input,
\* in the input token) compares amounts of one token.
C29_CycleClosed ==
    (outcome = "constructed" /\ swap_vectors # <<>>)
    => swap_vectors[Len(swap_vectors)].token_out = input_token

\* the states a run dispatched by calculate_with_pool works on
DispatchedRun ==
    /\ call # Idle
    /\ call.op = "calculate_with_pool"
    /\ call.pool_states # <<>>

\* C30: the pool states that the optimization dispatched by calculate_with_pool
\* runs against passed the gates of the pre-calculation check: every pool of the
\* path is viable at them and their net rate is not below the minimum, whatever
\* pool state was replaced between the check and the start of the worker's run.
C30_RunStatesWereChecked ==
    DispatchedRun =>
        /\ \A i \in 1..Hops :
              _pool_is_viable(PoolOfHop(i), call.pool_states[AddressOfHop(i)],
                              swap_vectors[i]) = "True"
        /\ RateCheck(call.min_rate_of_exchange, call.pool_states, pool_state) = "ok"

====
